---------------------------- MODULE Spec2Model ----------------------------
(***************************************************************************)
(* A model of MCP-Control-Lite's application profile registry              *)
(* (src-tauri/src/detection/profiles.rs) and of its configuration          *)
(* inference engine (src-tauri/src/analysis/*.rs).                         *)
(*                                                                         *)
(* Conventions.                                                            *)
(*   Option<T>    a sequence of length 0 (None) or 1 (Some(x)).            *)
(*   JSON values  records tagged by t: null, bool, num, str, arr, obj; an  *)
(*                object's v is a function from its keys to JSON values.   *)
(*   Strings      registry strings (ids, names) are atomic; the strings of *)
(*                the analysis engine, which are taken apart by ends_with, *)
(*                contains and format!, are sequences of characters.       *)
(***************************************************************************)
EXTENDS Integers, Sequences, FiniteSets, TLC

VARIABLES
    applications,   \* ApplicationRegistry.applications: id -> ApplicationProfile
    metadata,       \* ApplicationRegistry.metadata: RegistryMetadata
    now,            \* the wall clock read by chrono::Utc::now()
    file,           \* Option: the content of the external applications.json
    last_call,      \* the last registry call: its name, inputs and return value
    app_profile,    \* validate_config_structure: the ApplicationProfile (self)
    document,       \* validate_config_structure: the config document
    validation,     \* validate_config_structure: Option of its Result
    manifest,       \* parse_package_json: content, an Option (None: not JSON)
    parsed,         \* parse_package_json: Option of its Result
    merge_base,     \* merge_configs: base
    merge_overlay,  \* merge_configs: overlay
    merged,         \* Option: merge_configs(base, overlay)
    remerged,       \* Option: merge_configs(merged, overlay)
    score_config,   \* calculate_confidence: config
    score_messages, \* calculate_confidence: messages
    confidence,     \* Option: calculate_confidence(config, messages)
    readme_content, \* parse_readme: content
    readme_info,    \* Option: parse_readme(content), unwrapped (it is always Ok)
    readme_section, \* Option: extract_section(content, the env section names)
    run_entry,      \* a run: the function called and its argument
    run_pc,         \* a run: where it stands (the function or the await it is at)
    run_config,     \* a run: Option, the local variable config
    run_messages,   \* a run: the local variable messages of the function running
    run_cursor,     \* a run: the other locals (owner, repo, the loops' position)
    run_trace,      \* a run: the I/O and merges it has done, in order
    run_log,        \* a run: every message pushed by any function of the run
    run_result,     \* a run: Option of the Result handed to the caller
    auto_candidates, \* with_auto_load: what stands at each candidate path
    auto_config_dir, \* with_auto_load: whether dirs::config_dir() is Some
    auto_pc,        \* with_auto_load: the candidate it is at
    auto_trace,     \* with_auto_load: the candidates probed and how each went
    auto_registry,  \* with_auto_load: Option of the registry returned
    shared_writer,  \* a shared registry: Option of the mutation in flight
    shared_readers  \* a shared registry: each reader's borrow and what it saw

registryVars == <<applications, metadata, now, file, last_call>>

validateVars == <<app_profile, document, validation>>

manifestVars == <<manifest, parsed>>

mergeVars == <<merge_base, merge_overlay, merged, remerged>>

confidenceVars == <<score_config, score_messages, confidence>>

readmeVars == <<readme_content, readme_info, readme_section>>

runVars == <<run_entry, run_pc, run_config, run_messages, run_cursor, run_trace, run_log, run_result>>

autoVars == <<auto_candidates, auto_config_dir, auto_pc, auto_trace, auto_registry>>

sharedVars == <<shared_writer, shared_readers>>

vars == <<registryVars, validateVars, manifestVars, mergeVars, confidenceVars, readmeVars, runVars, autoVars, sharedVars>>

\* The variables a specification of one component leaves alone.
exceptRegistry == <<validateVars, manifestVars, mergeVars, confidenceVars, readmeVars, runVars, autoVars, sharedVars>>

exceptValidate == <<registryVars, manifestVars, mergeVars, confidenceVars, readmeVars, runVars, autoVars, sharedVars>>

exceptManifest == <<registryVars, validateVars, mergeVars, confidenceVars, readmeVars, runVars, autoVars, sharedVars>>

exceptMerge == <<registryVars, validateVars, manifestVars, confidenceVars, readmeVars, runVars, autoVars, sharedVars>>

exceptConfidence == <<registryVars, validateVars, manifestVars, mergeVars, readmeVars, runVars, autoVars, sharedVars>>

exceptReadme == <<registryVars, validateVars, manifestVars, mergeVars, confidenceVars, runVars, autoVars, sharedVars>>

exceptRun == <<registryVars, validateVars, manifestVars, mergeVars, confidenceVars, readmeVars, autoVars, sharedVars>>

exceptAuto == <<validateVars, manifestVars, mergeVars, confidenceVars, readmeVars, runVars, sharedVars>>

exceptShared == <<validateVars, manifestVars, mergeVars, confidenceVars, readmeVars, runVars, autoVars>>

----------------------------------------------------------------------------
(* Option<T> *)

None == <<>>

Some(x) == <<x>>

IsSome(o) == Len(o) = 1

IsNone(o) == Len(o) = 0

Unwrap(o) == o[1]

UnwrapOr(o, d) == IF IsSome(o) THEN o[1] ELSE d

----------------------------------------------------------------------------
(* serde_json::Value *)

JNull == [t |-> "null"]

JBool(b) == [t |-> "bool", v |-> b]

JNum(n) == [t |-> "num", v |-> n]

JStr(s) == [t |-> "str", v |-> s]

JArr(s) == [t |-> "arr", v |-> s]

JObj(f) == [t |-> "obj", v |-> f]

EmptyMap == [k \in {} |-> JNull]

\* Value::get with a string index: Some only on an object holding the key.
Get(j, key) ==
    IF j.t = "obj" /\ key \in DOMAIN j.v THEN Some(j.v[key]) ELSE None

\* Option::and_then(|m| m.get(key))
AndThenGet(o, key) == IF IsSome(o) THEN Get(o[1], key) ELSE None

\* Option<&Value>::and_then(Value::as_str)
AsStr(o) == IF IsSome(o) /\ o[1].t = "str" THEN Some(o[1].v) ELSE None

\* Option<&Value>::and_then(Value::as_array)
AsArray(o) == IF IsSome(o) /\ o[1].t = "arr" THEN Some(o[1].v) ELSE None

\* Option<&Value>::and_then(Value::as_object)
AsObject(o) == IF IsSome(o) /\ o[1].t = "obj" THEN Some(o[1].v) ELSE None

----------------------------------------------------------------------------
(* ConfigStructure and ApplicationCategory: tagged variants, <<tag>> for a  *)
(* unit variant and <<tag, payload>> for Custom(String) / Other(String).    *)

DirectMcpServers == <<"DirectMcpServers">>

NestedMcpServers == <<"NestedMcpServers">>

Custom(name) == <<"Custom", name>>

ConfigStructureUnits == {"DirectMcpServers", "NestedMcpServers"}

ApplicationCategoryUnits ==
    {"IDE", "AIAssistant", "DeveloperTool", "Terminal", "CodeEditor",
     "ChatClient", "ProductivityTool"}

\* The fields of ApplicationProfile the model keeps: id, name,
\* config_structure, metadata.category and metadata.mcp_version.
Profile(id, name, structure, category) ==
    [id |-> id, name |-> name, config_structure |-> structure,
     category |-> category, mcp_version |-> "1.0"]

default_mcp_version == "1.0"

\* The twelve compiled-in profiles of ApplicationRegistry::new().
DefaultProfiles ==
    ("claude-desktop" :> Profile("claude-desktop", "Claude Desktop", DirectMcpServers, <<"ChatClient">>))
 @@ ("claude-code" :> Profile("claude-code", "Claude Code", DirectMcpServers, <<"CodeEditor">>))
 @@ ("cursor" :> Profile("cursor", "Cursor", NestedMcpServers, <<"CodeEditor">>))
 @@ ("zed" :> Profile("zed", "Zed", DirectMcpServers, <<"CodeEditor">>))
 @@ ("vscode" :> Profile("vscode", "Visual Studio Code", DirectMcpServers, <<"CodeEditor">>))
 @@ ("continue-dev" :> Profile("continue-dev", "Continue.dev", DirectMcpServers, <<"IDE">>))
 @@ ("amazon-q" :> Profile("amazon-q", "Amazon Q Developer", DirectMcpServers, <<"IDE">>))
 @@ ("warp" :> Profile("warp", "Warp", NestedMcpServers, <<"ProductivityTool">>))
 @@ ("jetbrains-idea" :> Profile("jetbrains-idea", "IntelliJ IDEA", NestedMcpServers, <<"IDE">>))
 @@ ("jetbrains-phpstorm" :> Profile("jetbrains-phpstorm", "PHPStorm", NestedMcpServers, <<"IDE">>))
 @@ ("jetbrains-webstorm" :> Profile("jetbrains-webstorm", "WebStorm", NestedMcpServers, <<"IDE">>))
 @@ ("jetbrains-pycharm" :> Profile("jetbrains-pycharm", "PyCharm", NestedMcpServers, <<"IDE">>))

----------------------------------------------------------------------------
(* HashMap<String, ApplicationProfile> *)

\* HashMap::insert: a new key is added, an existing key's value is replaced.
MapInsert(map, key, value) ==
    [k \in DOMAIN map \cup {key} |-> IF k = key THEN value ELSE map[k]]

\* HashMap::remove, the map it leaves.
MapRemove(map, key) == [k \in DOMAIN map \ {key} |-> map[k]]

\* HashMap::get / the value HashMap::remove returns.
MapGet(map, key) == IF key \in DOMAIN map THEN Some(map[key]) ELSE None

\* HashMap::len
MapLen(map) == Cardinality(DOMAIN map)

----------------------------------------------------------------------------
(* serde: #[derive(Serialize, Deserialize)] on the registry's types.        *)

\* An externally tagged enum: a unit variant is the string of its name, a
\* newtype variant the object {name: payload}.
SerializeEnum(e) ==
    IF Len(e) = 1 THEN JStr(e[1]) ELSE JObj(e[1] :> JStr(e[2]))

\* The reverse: units are the unit variants, payloadTag the one variant that
\* carries a String. {"Unit": null} is accepted for a unit variant as well.
DeserializeEnum(j, units, payloadTag) ==
    IF j.t = "str"
    THEN IF j.v \in units THEN Some(<<j.v>>) ELSE None
    ELSE IF j.t = "obj" /\ Cardinality(DOMAIN j.v) = 1
    THEN LET k == CHOOSE x \in DOMAIN j.v : TRUE
         IN  IF k = payloadTag /\ j.v[k].t = "str" THEN Some(<<k, j.v[k].v>>)
             ELSE IF k \in units /\ j.v[k].t = "null" THEN Some(<<k>>)
             ELSE None
    ELSE None

SerializeProfile(p) ==
    JObj(("id" :> JStr(p.id))
      @@ ("name" :> JStr(p.name))
      @@ ("config_structure" :> SerializeEnum(p.config_structure))
      @@ ("metadata" :> JObj(("category" :> SerializeEnum(p.category))
                          @@ ("mcp_version" :> JStr(p.mcp_version)))))

\* serde_json::from_value::<ApplicationProfile>: every field is required but
\* metadata.mcp_version, which #[serde(default = "default_mcp_version")]
\* fills in; unknown fields are ignored. None stands for the Err.
DeserializeProfile(j) ==
    LET id   == AsStr(Get(j, "id"))
        name == AsStr(Get(j, "name"))
        cs   == Get(j, "config_structure")
        md   == Get(j, "metadata")
        st   == IF IsSome(cs)
                THEN DeserializeEnum(cs[1], ConfigStructureUnits, "Custom")
                ELSE None
        cat  == IF IsSome(AndThenGet(md, "category"))
                THEN DeserializeEnum(AndThenGet(md, "category")[1],
                                     ApplicationCategoryUnits, "Other")
                ELSE None
        ver  == AndThenGet(md, "mcp_version")
        verOk == IsNone(ver) \/ IsSome(AsStr(ver))
    IN  IF IsSome(id) /\ IsSome(name) /\ IsSome(st) /\ IsSome(cat) /\ verOk
        THEN Some([id |-> id[1], name |-> name[1], config_structure |-> st[1],
                   category |-> cat[1],
                   mcp_version |-> UnwrapOr(AsStr(ver), default_mcp_version)])
        ELSE None

\* chrono's DateTime<Utc> is serialized as a string.
SerializeTime(t) == JStr(ToString(t))

\* #[derive(Serialize)] on ApplicationRegistry and RegistryMetadata: the
\* struct is an object of its fields and the HashMap an object keyed by id.
SerializeRegistry(apps, md) ==
    JObj(("applications" :> JObj([id \in DOMAIN apps |-> SerializeProfile(apps[id])]))
      @@ ("metadata" :> JObj(("version" :> JStr(md.version))
                          @@ ("last_updated" :> SerializeTime(md.last_updated))
                          @@ ("application_count" :> JNum(md.application_count)))))

----------------------------------------------------------------------------
(* ApplicationRegistry: constructors *)

\* ApplicationRegistry::new() at clock reading t.
new(t) ==
    [ok |-> TRUE,
     applications |-> DefaultProfiles,
     metadata |-> [version |-> "1.0.0", last_updated |-> t,
                   application_count |-> MapLen(DefaultProfiles)]]

\* A slip the loop could have: passing over an entry that fails to
\* deserialize instead of ending the load.
RECURSIVE LoadEntries_skipping(_, _, _)
LoadEntries_skipping(arr, i, map) ==
    IF i > Len(arr) THEN Some(map)
    ELSE LET profile == DeserializeProfile(arr[i])
         IN  IF IsNone(profile) THEN LoadEntries_skipping(arr, i + 1, map)
             ELSE LoadEntries_skipping(arr, i + 1,
                                       MapInsert(map, profile[1].id, profile[1]))

\* The for loop of from_json_file over the applications array, from entry i
\* on: each entry is deserialized and inserted under its own id; the first
\* entry that fails to deserialize ends the load (the ? operator).
RECURSIVE LoadEntries(_, _, _)
LoadEntries(arr, i, map) ==
    IF i > Len(arr) THEN Some(map)
    ELSE LET profile == DeserializeProfile(arr[i])
         IN  IF IsNone(profile) THEN None
             ELSE LoadEntries(arr, i + 1, MapInsert(map, profile[1].id, profile[1]))

\* ApplicationRegistry::from_json_file on the file content f (None: no such
\* file; Some(None): text that is not JSON; Some(Some(j)): the document j).
from_json_file(f, t) ==
    IF IsNone(f) THEN [ok |-> FALSE, err |-> "read_to_string"]
    ELSE IF IsNone(f[1]) THEN [ok |-> FALSE, err |-> "from_str"]
    ELSE LET json == f[1][1]
             apps_array == AsArray(Get(json, "applications"))
             loaded == IF IsSome(apps_array)
                       THEN LoadEntries(apps_array[1], 1, EmptyMap)
                       ELSE Some(EmptyMap)
         IN  IF IsNone(loaded) THEN [ok |-> FALSE, err |-> "from_value"]
             ELSE [ok |-> TRUE,
                   applications |-> loaded[1],
                   metadata |-> [version |-> UnwrapOr(AsStr(Get(json, "version")), "1.0.0"),
                                 last_updated |-> t,
                                 application_count |-> MapLen(loaded[1])]]

----------------------------------------------------------------------------
(* The registry's inputs *)

MaxClock == 2

\* Profiles handed to add_application: a new id in two variants and a
\* replacement for the compiled-in cursor profile.
InputProfiles ==
    { Profile("test-app", "Test App", DirectMcpServers, <<"Other", "Test">>),
      Profile("test-app", "Test App 2", Custom("yaml"), <<"CodeEditor">>),
      Profile("cursor", "Cursor Nightly", DirectMcpServers, <<"CodeEditor">>) }

\* Ids handed to remove_application and get_application.
InputIds == {"test-app", "cursor", "no-such-app"}

\* An entry of the external file's applications array.
Entry(p) == SerializeProfile(p)

\* An entry without metadata.mcp_version: the default fills it in.
EntryNoVersion(p) ==
    JObj(("id" :> JStr(p.id))
      @@ ("name" :> JStr(p.name))
      @@ ("config_structure" :> SerializeEnum(p.config_structure))
      @@ ("metadata" :> JObj("category" :> SerializeEnum(p.category))))

\* An entry that is no ApplicationProfile: it has no config_structure.
EntryInvalid == JObj(("id" :> JStr("broken")) @@ ("name" :> JStr("Broken")))

ExternalDocument(version, entries) ==
    Some(Some(JObj(("version" :> JStr(version)) @@ ("applications" :> JArr(entries)))))

\* The contents the external applications.json may have when the program
\* starts: no file, text that is not JSON, and documents of the external
\* format (a version string and an applications array).
ExternalFiles ==
    LET a == Profile("test-app", "Test App", DirectMcpServers, <<"Other", "Test">>)
        b == Profile("test-app", "Test App 2", Custom("yaml"), <<"CodeEditor">>)
        c == Profile("cursor", "Cursor", NestedMcpServers, <<"CodeEditor">>)
    IN  { None,
          Some(None),
          Some(Some(JObj(EmptyMap))),
          Some(Some(JObj("applications" :> JObj(EmptyMap)))),
          ExternalDocument("2.0", <<>>),
          ExternalDocument("2.0", <<Entry(a), Entry(c)>>),
          ExternalDocument("2.1", <<Entry(a), Entry(b)>>),
          ExternalDocument("2.2", <<EntryNoVersion(c)>>),
          ExternalDocument("2.3", <<Entry(a), EntryInvalid, Entry(c)>>) }

----------------------------------------------------------------------------
(* ApplicationRegistry: the operations *)

\* What last_call records: the operation, its id argument, its profile
\* argument, its return value, whether the id was a key of the map when the
\* call started, and metadata.application_count at that moment.
Call(op, id, arg, ret) ==
    [op |-> op, id |-> id, arg |-> arg, ret |-> ret,
     was_key |-> id \in DOMAIN applications,
     count_before |-> metadata.application_count]

Constructed(op) ==
    [op |-> op, id |-> "", arg |-> None, ret |-> None,
     was_key |-> FALSE, count_before |-> 0]

\* Utc::now() does not go backwards between two calls of the model.
Tick ==
    /\ now < MaxClock
    /\ now' = now + 1
    /\ UNCHANGED <<applications, metadata, file, last_call, exceptRegistry>>

\* A slip add_application could have: counting the calls instead of the keys.
add_application_counting_calls(profile) ==
    /\ applications' = MapInsert(applications, profile.id, profile)
    /\ metadata' = [metadata EXCEPT !.application_count = metadata.application_count + 1,
                                    !.last_updated = now]
    /\ last_call' = Call("add_application", profile.id, Some(profile), None)
    /\ UNCHANGED <<now, file, exceptRegistry>>

add_application(profile) ==
    /\ applications' = MapInsert(applications, profile.id, profile)
    /\ metadata' = [metadata EXCEPT !.application_count = MapLen(applications'),
                                    !.last_updated = now]
    /\ last_call' = Call("add_application", profile.id, Some(profile), None)
    /\ UNCHANGED <<now, file, exceptRegistry>>

\* A slip remove_application could have: leaving the metadata as it was.
remove_application_stale_count(id) ==
    /\ applications' = MapRemove(applications, id)
    /\ last_call' = Call("remove_application", id, None, MapGet(applications, id))
    /\ UNCHANGED <<metadata, now, file, exceptRegistry>>

\* A slip remove_application could have: refreshing the metadata whether or
\* not the id was a key.
remove_application_always_touching(id) ==
    /\ applications' = MapRemove(applications, id)
    /\ metadata' = [metadata EXCEPT !.application_count = MapLen(applications'),
                                    !.last_updated = now]
    /\ last_call' = Call("remove_application", id, None, MapGet(applications, id))
    /\ UNCHANGED <<now, file, exceptRegistry>>

remove_application(id) ==
    LET result == MapGet(applications, id)
    IN  /\ applications' = MapRemove(applications, id)
        /\ metadata' = IF IsSome(result)
                       THEN [metadata EXCEPT !.application_count = MapLen(applications'),
                                             !.last_updated = now]
                       ELSE metadata
        /\ last_call' = Call("remove_application", id, None, result)
        /\ UNCHANGED <<now, file, exceptRegistry>>

get_application(id) ==
    /\ last_call' = Call("get_application", id, None, MapGet(applications, id))
    /\ UNCHANGED <<applications, metadata, now, file, exceptRegistry>>

\* Categories handed to get_applications_by_category.
InputCategories == {<<"CodeEditor">>, <<"Other", "Test">>, <<"Terminal">>}

\* A Vec<&ApplicationProfile> whose order is the map's iteration order, which
\* is unspecified: the profiles with how many times each occurs.
VecPush(vec, p) ==
    IF p \in DOMAIN vec THEN [vec EXCEPT ![p] = @ + 1]
    ELSE [q \in DOMAIN vec \cup {p} |-> IF q = p THEN 1 ELSE vec[q]]

\* The filter letting every profile through.
FilterValues_unfiltered(map, keys, category) ==
    [p \in {map[k] : k \in keys} |-> 1]

\* .values().filter(|app| &app.metadata.category == category).collect()
RECURSIVE FilterValues(_, _, _)
FilterValues(map, keys, category) ==
    IF keys = {} THEN [q \in {} |-> 0]
    ELSE LET k == CHOOSE x \in keys : TRUE
             rest == FilterValues(map, keys \ {k}, category)
         IN IF map[k].category = category THEN VecPush(rest, map[k])
            ELSE rest

get_applications_by_category(category) ==
    /\ last_call' = Call("get_applications_by_category", "", Some(category),
                         FilterValues(applications, DOMAIN applications,
                                      category))
    /\ UNCHANGED <<applications, metadata, now, file, exceptRegistry>>

update_metadata ==
    /\ metadata' = [metadata EXCEPT !.application_count = MapLen(applications),
                                    !.last_updated = now]
    /\ last_call' = Call("update_metadata", "", None, None)
    /\ UNCHANGED <<applications, now, file, exceptRegistry>>

\* serde_json::to_string(&registry) written to the external file.
WriteRegistry ==
    /\ file' = Some(Some(SerializeRegistry(applications, metadata)))
    /\ last_call' = Call("to_string", "", None, None)
    /\ UNCHANGED <<applications, metadata, now, exceptRegistry>>

\* ApplicationRegistry::from_json_file(path): on Ok the loaded registry is
\* the one the program goes on with, on Err the caller keeps what it had.
FromJsonFile ==
    LET r == from_json_file(file, now)
    IN  /\ applications' = IF r.ok THEN r.applications ELSE applications
        /\ metadata' = IF r.ok THEN r.metadata ELSE metadata
        /\ last_call' = Call("from_json_file", "", None,
                             IF r.ok THEN Some("Ok") ELSE Some(r.err))
        /\ UNCHANGED <<now, file, exceptRegistry>>

RegistryInit ==
    /\ now = 0
    /\ file \in ExternalFiles
    /\ \E r \in {new(now), from_json_file(file, now)} :
          /\ r.ok
          /\ applications = r.applications
          /\ metadata = r.metadata
          /\ last_call = Constructed(IF r = new(now) THEN "new" ELSE "from_json_file")

Next ==
    \/ Tick
    \/ \E profile \in InputProfiles : add_application(profile)
    \/ \E id \in InputIds : remove_application(id)
    \/ \E id \in InputIds : get_application(id)
    \/ \E category \in InputCategories : get_applications_by_category(category)
    \/ update_metadata
    \/ WriteRegistry
    \/ FromJsonFile

\* What the registry's variables hold in a specification of another component.
RegistryIdle ==
    /\ now = 0
    /\ file = None
    /\ applications = EmptyMap
    /\ metadata = [version |-> "", last_updated |-> 0, application_count |-> 0]
    /\ last_call = Constructed("")

ValidateIdle == app_profile = None /\ document = None /\ validation = None

ManifestIdle == manifest = None /\ parsed = None

MergeIdle ==
    merge_base = None /\ merge_overlay = None /\ merged = None /\ remerged = None

ConfidenceIdle ==
    score_config = None /\ score_messages = None /\ confidence = None

ReadmeIdle ==
    readme_content = None /\ readme_info = None /\ readme_section = None

RunIdle ==
    /\ run_entry = None /\ run_pc = "idle" /\ run_config = None
    /\ run_messages = <<>> /\ run_cursor = None /\ run_trace = <<>>
    /\ run_log = <<>> /\ run_result = None

AutoIdle ==
    /\ auto_candidates = <<>> /\ auto_config_dir = FALSE /\ auto_pc = "idle"
    /\ auto_trace = <<>> /\ auto_registry = None

SharedIdle == shared_writer = None /\ shared_readers = <<>>

Init ==
    /\ RegistryInit /\ ValidateIdle /\ ManifestIdle /\ MergeIdle /\ ConfidenceIdle
    /\ ReadmeIdle /\ RunIdle
    /\ AutoIdle /\ SharedIdle

Spec == Init /\ [][Next]_vars

----------------------------------------------------------------------------
(* ApplicationRegistry::from_json_file on applications arrays of every shape *)

MaxEntries == 3

\* An entry whose name is a number: no ApplicationProfile either.
EntryWrongType ==
    JObj(("id" :> JStr("test-app"))
      @@ ("name" :> JNum(7))
      @@ ("config_structure" :> SerializeEnum(DirectMcpServers))
      @@ ("metadata" :> JObj("category" :> SerializeEnum(<<"CodeEditor">>))))

LoadEntryKinds ==
    { Entry(Profile("test-app", "Test App", DirectMcpServers, <<"Other", "Test">>)),
      Entry(Profile("cursor", "Cursor", NestedMcpServers, <<"CodeEditor">>)),
      EntryInvalid,
      EntryWrongType }

\* Every applications array of up to MaxEntries entries, each valid or not.
LoadFiles ==
    { ExternalDocument("2.0", entries) :
        entries \in UNION {[1..n -> LoadEntryKinds] : n \in 0..MaxEntries} }

LoadInit ==
    /\ now = 0
    /\ file \in LoadFiles
    /\ applications = new(now).applications
    /\ metadata = new(now).metadata
    /\ last_call = Constructed("new")

LoadNext == Tick \/ FromJsonFile

InitLoad ==
    /\ LoadInit /\ ValidateIdle /\ ManifestIdle /\ MergeIdle /\ ConfidenceIdle
    /\ ReadmeIdle /\ RunIdle
    /\ AutoIdle /\ SharedIdle

SpecLoad == InitLoad /\ [][LoadNext]_vars

----------------------------------------------------------------------------
(* ApplicationRegistry::with_auto_load *)

\* The candidate paths, in the order with_auto_load tries them.
CandidatePaths ==
    <<"./resources/applications.json",
      "./src-tauri/resources/applications.json",
      "<config dir>/mcp-control/applications.json">>

\* What may stand at a candidate path: nothing, something that exists and
\* cannot be read as a file (a directory), or a file with some content.
Candidate(exists, content) == [exists |-> exists, content |-> content]

CandidateKinds ==
    LET a == Profile("test-app", "Test App", DirectMcpServers, <<"Other", "Test">>)
        c == Profile("cursor", "Cursor", NestedMcpServers, <<"CodeEditor">>)
    IN  { Candidate(FALSE, None),
          Candidate(TRUE, None),
          Candidate(TRUE, Some(None)),
          Candidate(TRUE, ExternalDocument("2.3", <<Entry(a), EntryInvalid>>)),
          Candidate(TRUE, ExternalDocument("2.0", <<Entry(a), Entry(c)>>)),
          Candidate(TRUE, ExternalDocument("2.2", <<EntryNoVersion(c)>>)) }

\* A slip with_auto_load could have: giving the candidates up at the first
\* one that exists and fails to load.
TryCandidate_giving_up(i, next) ==
    LET candidate == auto_candidates[i]
        r == from_json_file(candidate.content, now)
    IN  IF candidate.exists
        THEN IF r.ok
             THEN /\ auto_registry' = Some(r)
                  /\ auto_pc' = "done"
                  /\ auto_trace' = Append(auto_trace, [path |-> CandidatePaths[i], exists |-> TRUE, loaded |-> TRUE])
             ELSE /\ auto_pc' = "fallback"
                  /\ auto_trace' = Append(auto_trace, [path |-> CandidatePaths[i], exists |-> TRUE, loaded |-> FALSE])
                  /\ UNCHANGED auto_registry
        ELSE /\ auto_pc' = next
             /\ auto_trace' = Append(auto_trace, [path |-> CandidatePaths[i], exists |-> FALSE, loaded |-> FALSE])
             /\ UNCHANGED auto_registry

\* if path.exists() { if let Ok(registry) = Self::from_json_file(&path)
\* { return registry; } } on candidate i; next is where the code goes on.
TryCandidate(i, next) ==
    LET candidate == auto_candidates[i]
        r == from_json_file(candidate.content, now)
    IN  IF candidate.exists
        THEN IF r.ok
             THEN /\ auto_registry' = Some(r)
                  /\ auto_pc' = "done"
                  /\ auto_trace' = Append(auto_trace, [path |-> CandidatePaths[i], exists |-> TRUE, loaded |-> TRUE])
             ELSE /\ auto_pc' = next
                  /\ auto_trace' = Append(auto_trace, [path |-> CandidatePaths[i], exists |-> TRUE, loaded |-> FALSE])
                  /\ UNCHANGED auto_registry
        ELSE /\ auto_pc' = next
             /\ auto_trace' = Append(auto_trace, [path |-> CandidatePaths[i], exists |-> FALSE, loaded |-> FALSE])
             /\ UNCHANGED auto_registry

DevPath ==
    /\ auto_pc = "dev_path"
    /\ TryCandidate(1, "src_tauri_path")
    /\ UNCHANGED <<auto_candidates, auto_config_dir, registryVars, exceptAuto>>

SrcTauriPath ==
    /\ auto_pc = "src_tauri_path"
    /\ TryCandidate(2, "config_dir")
    /\ UNCHANGED <<auto_candidates, auto_config_dir, registryVars, exceptAuto>>

\* if let Some(config_dir) = dirs::config_dir() { ... }
ConfigDir ==
    /\ auto_pc = "config_dir"
    /\ IF auto_config_dir
       THEN TryCandidate(3, "fallback")
       ELSE auto_pc' = "fallback" /\ UNCHANGED <<auto_trace, auto_registry>>
    /\ UNCHANGED <<auto_candidates, auto_config_dir, registryVars, exceptAuto>>

\* Self::new()
Fallback ==
    /\ auto_pc = "fallback"
    /\ auto_registry' = Some(new(now))
    /\ auto_pc' = "done"
    /\ UNCHANGED <<auto_trace, auto_candidates, auto_config_dir, registryVars, exceptAuto>>

AutoInit ==
    /\ auto_candidates \in [1..3 -> CandidateKinds]
    /\ auto_config_dir \in BOOLEAN
    /\ auto_pc = "dev_path"
    /\ auto_trace = <<>>
    /\ auto_registry = None

AutoNext == DevPath \/ SrcTauriPath \/ ConfigDir \/ Fallback

InitAuto ==
    /\ AutoInit /\ RegistryIdle /\ ValidateIdle /\ ManifestIdle /\ MergeIdle
    /\ ConfidenceIdle /\ ReadmeIdle /\ RunIdle /\ SharedIdle

SpecAuto == InitAuto /\ [][AutoNext]_vars

----------------------------------------------------------------------------
(* One registry shared by a writer and readers.  The mutators take &mut     *)
(* self and the readers &self: a mutation starts only when no borrow is out *)
(* and a reader borrows only when no mutation is in flight.  Each statement *)
(* of a mutator is a step of its own.                                       *)

MaxReaders == 2

Readers == 1..MaxReaders

\* A reader that holds no borrow.
ReaderIdle == [pc |-> "idle", len |-> 0, count |-> 0]

\* The mutation in flight: the mutator, its argument and the statement it
\* is at.
Mutation(op, id, arg, pc) == [op |-> op, id |-> id, arg |-> arg, pc |-> pc]

NoBorrow == \A r \in Readers : shared_readers[r].pc = "idle"

\* A call of add_application(&mut self, profile).
BeginAdd(profile) ==
    /\ shared_writer = None
    /\ NoBorrow
    /\ shared_writer' = Some(Mutation("add_application", profile.id, Some(profile), "insert"))
    /\ UNCHANGED <<shared_readers, registryVars, exceptShared>>

\* A call of remove_application(&mut self, id).
BeginRemove(id) ==
    /\ shared_writer = None
    /\ NoBorrow
    /\ shared_writer' = Some(Mutation("remove_application", id, None, "remove"))
    /\ UNCHANGED <<shared_readers, registryVars, exceptShared>>

\* A call of update_metadata(&mut self).
BeginUpdateMetadata ==
    /\ shared_writer = None
    /\ NoBorrow
    /\ shared_writer' = Some(Mutation("update_metadata", "", None, "count"))
    /\ UNCHANGED <<shared_readers, registryVars, exceptShared>>

\* self.applications.insert(profile.id.clone(), profile);
InsertStep ==
    /\ IsSome(shared_writer)
    /\ shared_writer[1].pc = "insert"
    /\ applications' = MapInsert(applications, shared_writer[1].id, shared_writer[1].arg[1])
    /\ shared_writer' = Some([shared_writer[1] EXCEPT !.pc = "count"])
    /\ UNCHANGED <<metadata, now, file, last_call, shared_readers, exceptShared>>

\* let result = self.applications.remove(id); if result.is_some() { ... }
RemoveStep ==
    /\ IsSome(shared_writer)
    /\ shared_writer[1].pc = "remove"
    /\ applications' = MapRemove(applications, shared_writer[1].id)
    /\ shared_writer' = IF IsSome(MapGet(applications, shared_writer[1].id))
                        THEN Some([shared_writer[1] EXCEPT !.pc = "count"])
                        ELSE None
    /\ UNCHANGED <<metadata, now, file, last_call, shared_readers, exceptShared>>

\* self.metadata.application_count = self.applications.len();
CountStep ==
    /\ IsSome(shared_writer)
    /\ shared_writer[1].pc = "count"
    /\ metadata' = [metadata EXCEPT !.application_count = MapLen(applications)]
    /\ shared_writer' = Some([shared_writer[1] EXCEPT !.pc = "stamp"])
    /\ UNCHANGED <<applications, now, file, last_call, shared_readers, exceptShared>>

\* self.metadata.last_updated = chrono::Utc::now(); and the return.
StampStep ==
    /\ IsSome(shared_writer)
    /\ shared_writer[1].pc = "stamp"
    /\ metadata' = [metadata EXCEPT !.last_updated = now]
    /\ shared_writer' = None
    /\ UNCHANGED <<applications, now, file, last_call, shared_readers, exceptShared>>

\* A reader that takes its borrow whatever the writer is doing.
Borrow_during_mutation(r) ==
    /\ shared_readers[r].pc = "idle"
    /\ shared_readers' = [shared_readers EXCEPT ![r].pc = "borrowed"]
    /\ UNCHANGED <<shared_writer, registryVars, exceptShared>>

\* A reader takes &self.
Borrow(r) ==
    /\ shared_readers[r].pc = "idle"
    /\ shared_writer = None
    /\ shared_readers' = [shared_readers EXCEPT ![r].pc = "borrowed"]
    /\ UNCHANGED <<shared_writer, registryVars, exceptShared>>

\* registry.applications.len()
ReadLen(r) ==
    /\ shared_readers[r].pc = "borrowed"
    /\ shared_readers' = [shared_readers EXCEPT ![r].pc = "seen_len",
                                                 ![r].len = MapLen(applications)]
    /\ UNCHANGED <<shared_writer, registryVars, exceptShared>>

\* registry.metadata.application_count
ReadCount(r) ==
    /\ shared_readers[r].pc = "seen_len"
    /\ shared_readers' = [shared_readers EXCEPT ![r].pc = "seen",
                                                 ![r].count = metadata.application_count]
    /\ UNCHANGED <<shared_writer, registryVars, exceptShared>>

\* The reader's borrow ends.
Release(r) ==
    /\ shared_readers[r].pc = "seen"
    /\ shared_readers' = [shared_readers EXCEPT ![r] = ReaderIdle]
    /\ UNCHANGED <<shared_writer, registryVars, exceptShared>>

SharedInit ==
    /\ now = 0
    /\ file = None
    /\ applications = new(now).applications
    /\ metadata = new(now).metadata
    /\ last_call = Constructed("new")
    /\ shared_writer = None
    /\ shared_readers = [r \in Readers |-> ReaderIdle]

SharedNext ==
    \/ Tick
    \/ \E profile \in InputProfiles : BeginAdd(profile)
    \/ \E id \in InputIds : BeginRemove(id)
    \/ BeginUpdateMetadata
    \/ InsertStep
    \/ RemoveStep
    \/ CountStep
    \/ StampStep
    \/ \E r \in Readers : Borrow(r)
    \/ \E r \in Readers : ReadLen(r)
    \/ \E r \in Readers : ReadCount(r)
    \/ \E r \in Readers : Release(r)

InitShared ==
    /\ SharedInit /\ ValidateIdle /\ ManifestIdle /\ MergeIdle /\ ConfidenceIdle
    /\ ReadmeIdle /\ RunIdle /\ AutoIdle

SpecShared == InitShared /\ [][SharedNext]_vars

----------------------------------------------------------------------------
(* ApplicationProfile::validate_config_structure *)

Ok == [ok |-> TRUE]

Err(e) == [ok |-> FALSE, err |-> e]

\* A slip validate_config_structure could have: failing a document that has
\* neither key instead of only logging it.
validate_config_structure_strict(self, config) ==
    LET kind == self.config_structure[1]
        has_direct == IsSome(Get(config, "mcpServers"))
        has_nested == IsSome(AndThenGet(Get(config, "mcp"), "servers"))
    IN  IF kind = "DirectMcpServers" /\ ~has_direct THEN Err(<<"no mcpServers", self.name>>)
        ELSE IF kind = "NestedMcpServers" /\ ~has_nested THEN Err(<<"no mcp.servers", self.name>>)
        ELSE Ok

\* The Result of validate_config_structure(&self, config); the text of an
\* Err is kept as the mismatch it reports and the profile name it quotes.
validate_config_structure(self, config) ==
    LET kind == self.config_structure[1]
        has_direct == IsSome(Get(config, "mcpServers"))
        has_nested == IsSome(AndThenGet(Get(config, "mcp"), "servers"))
    IN  IF kind = "DirectMcpServers"
        THEN IF ~has_direct /\ has_nested
             THEN Err(<<"DirectMcpServers but config uses nested mcp.servers", self.name>>)
             ELSE Ok
        ELSE IF kind = "NestedMcpServers"
        THEN IF ~has_nested /\ has_direct
             THEN Err(<<"NestedMcpServers but config uses direct mcpServers", self.name>>)
             ELSE Ok
        ELSE Ok

\* The profiles validated: the compiled-in ones and those handed to
\* add_application (one of them Custom).
ValidatedProfiles ==
    {DefaultProfiles[id] : id \in DOMAIN DefaultProfiles} \cup InputProfiles

\* The values tried under the root key mcpServers and under the root key mcp.
McpServersValues == {JObj(EmptyMap), JObj("fs" :> JObj(EmptyMap)), JNull}

McpValues ==
    { JObj("servers" :> JObj(EmptyMap)),
      JObj("servers" :> JNull),
      JObj(("servers" :> JObj("fs" :> JObj(EmptyMap))) @@ ("enabled" :> JBool(TRUE))),
      JObj(EmptyMap),
      JObj("enabled" :> JBool(TRUE)),
      JStr("servers"),
      JArr(<<JStr("servers")>>) }

\* The config documents tried: roots that are no object, and objects with
\* every combination of the two root keys.
Documents ==
    { JNull, JArr(<<>>), JStr("mcpServers"), JObj(EmptyMap), JObj("theme" :> JStr("dark")) }
    \cup { JObj("mcpServers" :> d) : d \in McpServersValues }
    \cup { JObj("mcp" :> n) : n \in McpValues }
    \cup { JObj(("mcpServers" :> d) @@ ("mcp" :> n)) : d \in McpServersValues, n \in McpValues }

ValidateInit ==
    /\ app_profile \in ValidatedProfiles
    /\ document \in Documents
    /\ validation = None

Validate ==
    /\ validation = None
    /\ validation' = Some(validate_config_structure(app_profile, document))
    /\ UNCHANGED <<app_profile, document, exceptValidate>>

ValidateNext == Validate

InitValidate ==
    /\ ValidateInit /\ RegistryIdle /\ ManifestIdle /\ MergeIdle /\ ConfidenceIdle
    /\ ReadmeIdle /\ RunIdle
    /\ AutoIdle /\ SharedIdle

SpecValidate == InitValidate /\ [][ValidateNext]_vars

----------------------------------------------------------------------------
(* Strings of the analysis engine: sequences of characters *)

\* str::ends_with
EndsWith(s, suffix) ==
    /\ Len(s) >= Len(suffix)
    /\ SubSeq(s, Len(s) - Len(suffix) + 1, Len(s)) = suffix

\* str::starts_with
StartsWith(s, prefix) ==
    /\ Len(s) >= Len(prefix)
    /\ SubSeq(s, 1, Len(prefix)) = prefix

\* str::contains
Contains(s, pat) ==
    \E i \in 1..(Len(s) - Len(pat) + 1) : SubSeq(s, i, i + Len(pat) - 1) = pat

\* str::trim_start_matches: the prefix is removed as often as it is there.
RECURSIVE TrimStartMatches(_, _)
TrimStartMatches(s, prefix) ==
    IF Len(prefix) > 0 /\ StartsWith(s, prefix)
    THEN TrimStartMatches(SubSeq(s, Len(prefix) + 1, Len(s)), prefix)
    ELSE s

\* str::trim_end_matches: the suffix is removed as often as it is there.
RECURSIVE TrimEndMatches(_, _)
TrimEndMatches(s, suffix) ==
    IF Len(suffix) > 0 /\ EndsWith(s, suffix)
    THEN TrimEndMatches(SubSeq(s, 1, Len(s) - Len(suffix)), suffix)
    ELSE s

LowerCase == <<"a", "b", "c", "d", "e", "f", "g", "h", "i", "j", "k", "l", "m", "n", "o", "p", "q", "r", "s", "t", "u", "v", "w", "x", "y", "z">>

UpperCase == <<"A", "B", "C", "D", "E", "F", "G", "H", "I", "J", "K", "L", "M", "N", "O", "P", "Q", "R", "S", "T", "U", "V", "W", "X", "Y", "Z">>

\* char::to_uppercase on the ASCII letters; other characters are kept.
UpperChar(c) ==
    IF \E i \in 1..26 : LowerCase[i] = c
    THEN UpperCase[CHOOSE i \in 1..26 : LowerCase[i] = c]
    ELSE c

\* str::to_uppercase
ToUppercase(s) == [i \in 1..Len(s) |-> UpperChar(s[i])]

----------------------------------------------------------------------------
(* String literals of package_parser.rs and server_analyzer.rs *)

S_name == <<"n", "a", "m", "e">>

S_description == <<"d", "e", "s", "c", "r", "i", "p", "t", "i", "o", "n">>

S_version == <<"v", "e", "r", "s", "i", "o", "n">>

S_author == <<"a", "u", "t", "h", "o", "r">>

S_bin == <<"b", "i", "n">>

S_main == <<"m", "a", "i", "n">>

S_scripts == <<"s", "c", "r", "i", "p", "t", "s">>

S_mcp == <<"m", "c", "p">>

S_env == <<"e", "n", "v">>

S_keywords == <<"k", "e", "y", "w", "o", "r", "d", "s">>

S_homepage == <<"h", "o", "m", "e", "p", "a", "g", "e">>

S_repository == <<"r", "e", "p", "o", "s", "i", "t", "o", "r", "y">>

S_url == <<"u", "r", "l">>

S_required == <<"r", "e", "q", "u", "i", "r", "e", "d">>

S_default == <<"d", "e", "f", "a", "u", "l", "t">>

S_example == <<"e", "x", "a", "m", "p", "l", "e">>

S_start == <<"s", "t", "a", "r", "t">>

S_run == <<"r", "u", "n">>

S_unknown == <<"u", "n", "k", "n", "o", "w", "n">>

S_npx == <<"n", "p", "x">>

S_node == <<"n", "o", "d", "e">>

S_npm == <<"n", "p", "m">>

S_stdio == <<"s", "t", "d", "i", "o">>

S_dash_y == <<"-", "y">>

S_dot_js == <<".", "j", "s">>

S_dot_mjs == <<".", "m", "j", "s">>

S_git_plus == <<"g", "i", "t", "+">>

S_dot_git == <<".", "g", "i", "t">>

S_KEY == <<"_", "K", "E", "Y">>

S_TOKEN == <<"_", "T", "O", "K", "E", "N">>

S_npm_install == <<"n", "p", "m", " ", "i", "n", "s", "t", "a", "l", "l", " ">>

S_detected_from_keywords == <<" ", "(", "d", "e", "t", "e", "c", "t", "e", "d", " ", "f", "r", "o", "m", " ", "k", "e", "y", "w", "o", "r", "d", "s", ")">>

----------------------------------------------------------------------------
(* PackageParser (package_parser.rs) *)

\* Option<&Value>::and_then(Value::as_bool)
AsBool(o) == IF IsSome(o) /\ o[1].t = "bool" THEN Some(o[1].v) ELSE None

\* struct DetectedConfig
DetectedConfig(name, description, command, args, env, optional_args, server_type, install_command, docs_url, author, version) ==
    [name |-> name, description |-> description, command |-> command,
     args |-> args, env |-> env, optional_args |-> optional_args,
     server_type |-> server_type, install_command |-> install_command,
     docs_url |-> docs_url, author |-> author, version |-> version]

\* struct EnvVarConfig
EnvVarConfig(name, description, required, default, example) ==
    [name |-> name, description |-> description, required |-> required,
     default |-> default, example |-> example]

extract_author(package) ==
    LET author == Get(package, S_author)
    IN  IF IsSome(AsStr(author)) THEN AsStr(author)
        ELSE AsStr(AndThenGet(author, S_name))

\* A slip determine_command_and_args could have: looking at main first.
determine_command_and_args_main_first(package, package_name) ==
    LET main == AsStr(Get(package, S_main))
    IN  IF IsSome(main) /\ (EndsWith(main[1], S_dot_js) \/ EndsWith(main[1], S_dot_mjs))
        THEN <<S_node, <<main[1]>>>>
        ELSE <<S_npx, <<S_dash_y, package_name>>>>

\* A slip determine_command_and_args could have: looking for the start
\* script before the mcp script.
determine_command_and_args_start_first(package, package_name) ==
    LET bin     == Get(package, S_bin)
        main    == AsStr(Get(package, S_main))
        scripts == AsObject(Get(package, S_scripts))
    IN  IF IsSome(AsStr(bin)) \/ (IsSome(AsObject(bin)) /\ DOMAIN AsObject(bin)[1] # {})
        THEN <<S_npx, <<S_dash_y, package_name>>>>
        ELSE IF IsSome(main) /\ (EndsWith(main[1], S_dot_js) \/ EndsWith(main[1], S_dot_mjs))
        THEN <<S_node, <<main[1]>>>>
        ELSE IF IsSome(scripts) /\ S_start \in DOMAIN scripts[1]
        THEN <<S_npm, <<S_start>>>>
        ELSE IF IsSome(scripts) /\ S_mcp \in DOMAIN scripts[1]
        THEN <<S_npm, <<S_run, S_mcp>>>>
        ELSE <<S_npx, <<S_dash_y, package_name>>>>

\* A slip determine_command_and_args could have: no command when the
\* manifest has no bin, no main and no script to go by.
determine_command_and_args_no_default(package, package_name) ==
    LET bin     == Get(package, S_bin)
        main    == AsStr(Get(package, S_main))
        scripts == AsObject(Get(package, S_scripts))
    IN  IF IsSome(AsStr(bin)) \/ (IsSome(AsObject(bin)) /\ DOMAIN AsObject(bin)[1] # {})
        THEN <<S_npx, <<S_dash_y, package_name>>>>
        ELSE IF IsSome(main) /\ (EndsWith(main[1], S_dot_js) \/ EndsWith(main[1], S_dot_mjs))
        THEN <<S_node, <<main[1]>>>>
        ELSE IF IsSome(scripts) /\ S_mcp \in DOMAIN scripts[1]
        THEN <<S_npm, <<S_run, S_mcp>>>>
        ELSE IF IsSome(scripts) /\ S_start \in DOMAIN scripts[1]
        THEN <<S_npm, <<S_start>>>>
        ELSE <<<<>>, <<>>>>

\* determine_command_and_args: <<command, args>>. A bin that is a string, or
\* an object with a first entry, returns; any other bin falls through.
determine_command_and_args(package, package_name) ==
    LET bin     == Get(package, S_bin)
        main    == AsStr(Get(package, S_main))
        scripts == AsObject(Get(package, S_scripts))
    IN  IF IsSome(AsStr(bin)) \/ (IsSome(AsObject(bin)) /\ DOMAIN AsObject(bin)[1] # {})
        THEN <<S_npx, <<S_dash_y, package_name>>>>
        ELSE IF IsSome(main) /\ (EndsWith(main[1], S_dot_js) \/ EndsWith(main[1], S_dot_mjs))
        THEN <<S_node, <<main[1]>>>>
        ELSE IF IsSome(scripts) /\ S_mcp \in DOMAIN scripts[1]
        THEN <<S_npm, <<S_run, S_mcp>>>>
        ELSE IF IsSome(scripts) /\ S_start \in DOMAIN scripts[1]
        THEN <<S_npm, <<S_start>>>>
        ELSE <<S_npx, <<S_dash_y, package_name>>>>

\* The EnvVarConfig extract_env_vars builds for one entry of mcp.env.
EnvVarFromValue(key, value) ==
    IF value.t = "obj"
    THEN EnvVarConfig(key,
                      AsStr(Get(value, S_description)),
                      UnwrapOr(AsBool(Get(value, S_required)), FALSE),
                      AsStr(Get(value, S_default)),
                      AsStr(Get(value, S_example)))
    ELSE EnvVarConfig(key, None, FALSE, AsStr(Some(value)), None)

\* The keywords loop of extract_env_vars from keyword i on: a keyword whose
\* uppercased form ends in _KEY or _TOKEN is entered under that form unless
\* the key is there already (entry().or_insert()).
RECURSIVE EnvFromKeywords(_, _, _)
EnvFromKeywords(keywords, i, env_vars) ==
    IF i > Len(keywords) THEN env_vars
    ELSE LET kw == AsStr(Some(keywords[i]))
             up == ToUppercase(kw[1])
         IN  IF IsSome(kw) /\ (EndsWith(up, S_KEY) \/ EndsWith(up, S_TOKEN))
                /\ up \notin DOMAIN env_vars
             THEN EnvFromKeywords(keywords, i + 1,
                      MapInsert(env_vars, up,
                          EnvVarConfig(up, Some(kw[1] \o S_detected_from_keywords),
                                       FALSE, None, None)))
             ELSE EnvFromKeywords(keywords, i + 1, env_vars)

extract_env_vars(package) ==
    LET mcp_config == AsObject(Get(package, S_mcp))
        env == IF IsSome(mcp_config) THEN AsObject(MapGet(mcp_config[1], S_env)) ELSE None
        from_mcp == IF IsSome(env)
                    THEN [key \in DOMAIN env[1] |-> EnvVarFromValue(key, env[1][key])]
                    ELSE EmptyMap
        keywords == AsArray(Get(package, S_keywords))
    IN  IF IsSome(keywords) THEN EnvFromKeywords(keywords[1], 1, from_mcp) ELSE from_mcp

extract_docs_url(package) ==
    LET homepage   == AsStr(Get(package, S_homepage))
        repository == Get(package, S_repository)
        url        == AsStr(AndThenGet(repository, S_url))
    IN  IF IsSome(homepage) THEN homepage
        ELSE IF IsSome(AsStr(repository)) THEN AsStr(repository)
        ELSE IF IsSome(url)
        THEN Some(TrimEndMatches(TrimStartMatches(url[1], S_git_plus), S_dot_git))
        ELSE None

\* PackageParser::parse_package_json on content (None: text that is not JSON).
parse_package_json(content) ==
    IF IsNone(content) THEN Err("serde_json::from_str")
    ELSE LET package == content[1]
             name == UnwrapOr(AsStr(Get(package, S_name)), S_unknown)
             command_and_args == determine_command_and_args(package, name)
         IN  [ok |-> TRUE,
              config |-> DetectedConfig(
                  name,
                  AsStr(Get(package, S_description)),
                  command_and_args[1],
                  command_and_args[2],
                  extract_env_vars(package),
                  <<>>,
                  S_stdio,
                  Some(S_npm_install \o UnwrapOr(AsStr(Get(package, S_name)), S_unknown)),
                  extract_docs_url(package),
                  extract_author(package),
                  AsStr(Get(package, S_version)))]

----------------------------------------------------------------------------
(* The manifests parsed *)

\* The JSON object that has, of the keys of fields, those whose Option is Some.
ObjectOf(fields) ==
    JObj([k \in {x \in DOMAIN fields : IsSome(fields[x])} |-> fields[k][1]])

NameValues == { None, Some(JStr(<<"f", "o", "o">>)), Some(JNum(7)) }

BinValues ==
    { None,
      Some(JStr(<<"f", "o", "o", "-", "c", "l", "i">>)),
      Some(JObj(<<"f", "o", "o">> :> JStr(<<"c", "l", "i", ".", "j", "s">>))),
      Some(JObj(EmptyMap)),
      Some(JNull),
      Some(JArr(<<JStr(<<"c", "l", "i", ".", "j", "s">>)>>)) }

MainValues ==
    { None,
      Some(JStr(<<"i", "n", "d", "e", "x", ".", "j", "s">>)),
      Some(JStr(<<"l", "i", "b", ".", "m", "j", "s">>)),
      Some(JStr(<<"m", "a", "i", "n", ".", "t", "s">>)),
      Some(JStr(<<"j", "s">>)),
      Some(JArr(<<JStr(<<"i", "n", "d", "e", "x", ".", "j", "s">>)>>)) }

ScriptsValues ==
    { None,
      Some(JObj(EmptyMap)),
      Some(JObj(S_mcp :> JStr(<<"n", "o", "d", "e", " ", "m", "c", "p", ".", "j", "s">>))),
      Some(JObj(S_start :> JStr(<<"n", "o", "d", "e", " ", "i", "n", "d", "e", "x", ".", "j", "s">>))),
      Some(JObj((S_mcp :> JStr(<<"n", "o", "d", "e", " ", "m", "c", "p", ".", "j", "s">>)) @@ (S_start :> JStr(<<"n", "o", "d", "e", " ", "i", "n", "d", "e", "x", ".", "j", "s">>)))),
      Some(JObj(<<"b", "u", "i", "l", "d">> :> JStr(<<"t", "s", "c">>))),
      Some(JStr(<<"s", "t", "a", "r", "t">>)) }

\* Manifests that differ in the fields the command is chosen from.
CommandManifests ==
    { ObjectOf((S_name :> n) @@ (S_bin :> b) @@ (S_main :> m) @@ (S_scripts :> s)) :
        n \in NameValues, b \in BinValues, m \in MainValues, s \in ScriptsValues }

AuthorValues ==
    { None,
      Some(JStr(<<"A", "n", "n">>)),
      Some(JObj(S_name :> JStr(<<"B", "o", "b">>))),
      Some(JObj(<<"e", "m", "a", "i", "l">> :> JStr(<<"b", "@", "x">>))) }

RepositoryValues ==
    { None,
      Some(JStr(<<"g", "i", "t", "h", "u", "b", ":", "a", "/", "b">>)),
      Some(JObj(S_url :> JStr(<<"g", "i", "t", "+", "h", "t", "t", "p", "s", ":", "/", "/", "h", "/", "a", "/", "b", ".", "g", "i", "t">>))),
      Some(JObj(S_url :> JStr(<<"g", "i", "t", "+", "g", "i", "t", "+", "s", "s", "h", ":", "/", "/", "h", "/", "b", ".", "g", "i", "t", ".", "g", "i", "t">>))),
      Some(JObj(<<"t", "y", "p", "e">> :> JStr(<<"g", "i", "t">>))) }

McpEnvValues ==
    { None,
      Some(JObj(S_env :> JObj(
          (<<"A", "P", "I", "_", "K", "E", "Y">> :> JObj((S_description :> JStr(<<"k", "e", "y">>)) @@ (S_required :> JBool(TRUE))))
       @@ (<<"P", "O", "R", "T">> :> JStr(<<"8", "0">>))
       @@ (<<"D", "E", "B", "U", "G">> :> JBool(FALSE))))),
      Some(JObj(S_env :> JArr(<<>>))),
      Some(JStr(<<"e", "n", "v">>)) }

KeywordsValues ==
    { None,
      Some(JArr(<<JStr(<<"m", "c", "p">>), JStr(<<"a", "p", "i", "_", "k", "e", "y">>), JStr(<<"A", "P", "I", "_", "K", "E", "Y">>), JNum(1), JStr(<<"g", "h", "_", "t", "o", "k", "e", "n">>)>>)),
      Some(JStr(<<"a", "p", "i", "_", "k", "e", "y">>)) }

\* Manifests that differ in the fields the rest of the configuration is
\* taken from.
MetadataManifests ==
    { ObjectOf((S_name :> Some(JStr(<<"f", "o", "o">>))) @@ (S_bin :> Some(JStr(<<"f", "o", "o", "-", "c", "l", "i">>)))
            @@ (S_description :> d) @@ (S_version :> d)
            @@ (S_author :> a) @@ (S_homepage :> h) @@ (S_repository :> r)
            @@ (S_mcp :> e) @@ (S_keywords :> k)) :
        d \in {None, Some(JStr(<<"A", " ", "t", "o", "o", "l">>))}, a \in AuthorValues,
        h \in {None, Some(JStr(<<"h", "t", "t", "p", "s", ":", "/", "/", "f", "o", "o", ".", "d", "e", "v">>))}, r \in RepositoryValues,
        e \in McpEnvValues, k \in KeywordsValues }

\* The contents handed to parse_package_json: text that is not JSON, JSON
\* that is no object, and the manifests above.
ManifestContents ==
    { None, Some(JArr(<<>>)), Some(JStr(S_name)) }
    \cup { Some(m) : m \in CommandManifests \cup MetadataManifests }

ManifestInit ==
    /\ manifest \in ManifestContents
    /\ parsed = None

ParsePackageJson ==
    /\ parsed = None
    /\ parsed' = Some(parse_package_json(manifest))
    /\ UNCHANGED <<manifest, exceptManifest>>

ManifestNext == ParsePackageJson

InitManifest ==
    /\ ManifestInit /\ RegistryIdle /\ ValidateIdle /\ MergeIdle /\ ConfidenceIdle
    /\ ReadmeIdle /\ RunIdle
    /\ AutoIdle /\ SharedIdle

SpecManifest == InitManifest /\ [][ManifestNext]_vars

----------------------------------------------------------------------------
(* ServerAnalyzer::merge_configs (server_analyzer.rs) *)

\* struct ArgConfig
ArgConfig(name, description, default, example) ==
    [name |-> name, description |-> description, default |-> default,
     example |-> example]

\* A slip merge_configs could have: base.env.extend(overlay.env), by which
\* the overlay's entry replaces the base's.
merge_configs_overlay_wins(base, overlay) ==
    [base EXCEPT
        !.description = IF IsNone(base.description) /\ IsSome(overlay.description)
                        THEN overlay.description ELSE base.description,
        !.env = [k \in DOMAIN base.env \cup DOMAIN overlay.env |->
                    IF k \in DOMAIN overlay.env THEN overlay.env[k] ELSE base.env[k]],
        !.optional_args = base.optional_args \o overlay.optional_args,
        !.docs_url = IF IsNone(base.docs_url) THEN overlay.docs_url ELSE base.docs_url,
        !.author = IF IsNone(base.author) THEN overlay.author ELSE base.author]

\* A slip merge_configs could have: removing the key that is there instead
\* of leaving it (remove where entry().or_insert() was meant).
merge_configs_toggle_keys(base, overlay) ==
    [base EXCEPT
        !.description = IF IsNone(base.description) /\ IsSome(overlay.description)
                        THEN overlay.description ELSE base.description,
        !.env = [k \in (DOMAIN base.env \ DOMAIN overlay.env) \cup (DOMAIN overlay.env \ DOMAIN base.env) |->
                    IF k \in DOMAIN base.env THEN base.env[k] ELSE overlay.env[k]],
        !.optional_args = base.optional_args \o overlay.optional_args,
        !.docs_url = IF IsNone(base.docs_url) THEN overlay.docs_url ELSE base.docs_url,
        !.author = IF IsNone(base.author) THEN overlay.author ELSE base.author]

\* A slip merge_configs could have: filling version and install command
\* from the overlay like the other optional fields.
merge_configs_fill_all(base, overlay) ==
    [base EXCEPT
        !.description = IF IsNone(base.description) /\ IsSome(overlay.description)
                        THEN overlay.description ELSE base.description,
        !.env = [k \in DOMAIN base.env \cup DOMAIN overlay.env |->
                    IF k \in DOMAIN base.env THEN base.env[k] ELSE overlay.env[k]],
        !.optional_args = base.optional_args \o overlay.optional_args,
        !.docs_url = IF IsNone(base.docs_url) THEN overlay.docs_url ELSE base.docs_url,
        !.author = IF IsNone(base.author) THEN overlay.author ELSE base.author,
        !.version = IF IsNone(base.version) THEN overlay.version ELSE base.version,
        !.install_command = IF IsNone(base.install_command) THEN overlay.install_command
                            ELSE base.install_command]

\* A slip merge_configs could have: taking the command, the args and the
\* install command of an overlay that has a command example.
merge_configs_takes_command(base, overlay) ==
    [base EXCEPT
        !.description = IF IsNone(base.description) /\ IsSome(overlay.description)
                        THEN overlay.description ELSE base.description,
        !.env = [k \in DOMAIN base.env \cup DOMAIN overlay.env |->
                    IF k \in DOMAIN base.env THEN base.env[k] ELSE overlay.env[k]],
        !.optional_args = base.optional_args \o overlay.optional_args,
        !.docs_url = IF IsNone(base.docs_url) THEN overlay.docs_url ELSE base.docs_url,
        !.author = IF IsNone(base.author) THEN overlay.author ELSE base.author,
        !.command = IF overlay.args # <<>> THEN overlay.command ELSE base.command,
        !.args = IF overlay.args # <<>> THEN overlay.args ELSE base.args,
        !.install_command = IF IsSome(overlay.install_command) THEN overlay.install_command
                            ELSE base.install_command]

\* merge_configs(base, overlay): base with the description, docs_url and
\* author it lacks taken from overlay, overlay's env entries entered under
\* the keys base does not have, and overlay's optional_args appended.
merge_configs(base, overlay) ==
    [base EXCEPT
        !.description = IF IsNone(base.description) /\ IsSome(overlay.description)
                        THEN overlay.description ELSE base.description,
        !.env = [k \in DOMAIN base.env \cup DOMAIN overlay.env |->
                    IF k \in DOMAIN base.env THEN base.env[k] ELSE overlay.env[k]],
        !.optional_args = base.optional_args \o overlay.optional_args,
        !.docs_url = IF IsNone(base.docs_url) THEN overlay.docs_url ELSE base.docs_url,
        !.author = IF IsNone(base.author) THEN overlay.author ELSE base.author]

\* Environment maps over two keys; the entries of a side carry its tag.
EnvMaps(tag, required) ==
    { [k \in keys |-> EnvVarConfig(k, Some(tag), required, None, None)] :
        keys \in SUBSET {<<"A", "P", "I", "_", "K", "E", "Y">>, <<"P", "O", "R", "T">>} }

\* The base configurations merged: what a manifest gives (node, stdio, an
\* install command) with each optional field absent or present.
BaseConfigs ==
    { DetectedConfig(<<"f", "o", "o">>, d, S_node, <<<<"i", "n", "d", "e", "x", ".", "j", "s">>>>, e,
                     IF IsSome(a) THEN <<ArgConfig(<<"-", "-", "p", "o", "r", "t">>, None, None, None)>> ELSE <<>>,
                     S_stdio, iv, u, a, iv) :
        d \in {None, Some(<<"b", "a", "s", "e">>)}, e \in EnvMaps(<<"b", "a", "s", "e">>, FALSE),
        u \in {None, Some(<<"h", "t", "t", "p", "s", ":", "/", "/", "f", "o", "o", ".", "d", "e", "v">>)}, a \in {None, Some(<<"A", "n", "n">>)},
        iv \in {None, Some(<<"1", ".", "0", ".", "0">>)} }

\* The overlay configurations merged: what a readme gives, every field
\* different from the base's.
OverlayConfigs ==
    { DetectedConfig(S_unknown, d, S_npx, <<<<"-", "y">>, <<"b", "a", "r">>>>, e,
                     IF IsSome(a) THEN <<ArgConfig(<<"-", "-", "v", "e", "r", "b", "o", "s", "e">>, None, None, None)>> ELSE <<>>,
                     <<"s", "s", "e">>, iv, u, a, iv) :
        d \in {None, Some(<<"o", "v", "e", "r", "l", "a", "y">>)}, e \in EnvMaps(<<"o", "v", "e", "r", "l", "a", "y">>, TRUE),
        u \in {None, Some(<<"h", "t", "t", "p", "s", ":", "/", "/", "b", "a", "r", ".", "d", "e", "v">>)}, a \in {None, Some(<<"B", "o", "b">>)},
        iv \in {None, Some(<<"2", ".", "0", ".", "0">>)} }

MergeInit ==
    /\ merge_base \in BaseConfigs
    /\ merge_overlay \in OverlayConfigs
    /\ merged = None
    /\ remerged = None

Merge ==
    /\ merged = None
    /\ merged' = Some(merge_configs(merge_base, merge_overlay))
    /\ UNCHANGED <<merge_base, merge_overlay, remerged, exceptMerge>>

MergeAgain ==
    /\ merged # None
    /\ remerged = None
    /\ remerged' = Some(merge_configs(merged[1], merge_overlay))
    /\ UNCHANGED <<merge_base, merge_overlay, merged, exceptMerge>>

MergeNext == Merge \/ MergeAgain

InitMerge ==
    /\ MergeInit /\ RegistryIdle /\ ValidateIdle /\ ManifestIdle /\ ConfidenceIdle
    /\ ReadmeIdle /\ RunIdle
    /\ AutoIdle /\ SharedIdle

SpecMerge == InitMerge /\ [][MergeNext]_vars

----------------------------------------------------------------------------
(* f32 arithmetic. An f32 in [2^-5, 1], or zero, is kept as the integer    *)
(* number of units of 2^-28 it is: every such f32 is a whole number of     *)
(* units. Sums and quotients are rounded as IEEE 754 rounds them, to 24    *)
(* significant bits, to nearest, ties to even.                             *)

F32Bits == 24

F32One == 2^28

\* The number of binary digits of x.
RECURSIVE BitLen(_)
BitLen(x) == IF x = 0 THEN 0 ELSE 1 + BitLen(x \div 2)

\* q units of weight unit, of which rem out of den are left over, rounded to
\* the nearest whole number of units, a tie to the even one.
RoundNearestEven(q, rem, den) ==
    IF 2 * rem > den \/ (2 * rem = den /\ q % 2 = 1) THEN q + 1 ELSE q

\* The f32 nearest to the exact value x.
F32Round(x) ==
    IF BitLen(x) <= F32Bits THEN x
    ELSE LET unit == 2^(BitLen(x) - F32Bits)
         IN  RoundNearestEven(x \div unit, x % unit, unit) * unit

\* f32 addition
F32Add(a, b) == F32Round(a + b)

\* The smallest k with a * 2^k >= b, for 0 < a <= b.
RECURSIVE Normalise(_, _, _)
Normalise(a, b, k) == IF a >= b THEN k ELSE Normalise(2 * a, b, k + 1)

\* Long division: n more binary digits of rem / den appended to q; the
\* result is <<q, rem>>.
RECURSIVE LongDivide(_, _, _, _)
LongDivide(q, rem, den, n) ==
    IF n = 0 THEN <<q, rem>>
    ELSE IF 2 * rem >= den
         THEN LongDivide(2 * q + 1, 2 * rem - den, den, n - 1)
         ELSE LongDivide(2 * q, 2 * rem, den, n - 1)

\* f32 division a / b for 0 <= a <= b, 0 < b: the quotient's first 24
\* digits by long division, then rounded.
F32Div(a, b) ==
    IF a = 0 THEN 0
    ELSE LET k  == Normalise(a, b, 0)
             qr == LongDivide(1, a * 2^k - b, b, F32Bits - 1)
         IN  (RoundNearestEven(qr[1], qr[2], b) * (F32One \div 2^(F32Bits - 1))) \div 2^k

----------------------------------------------------------------------------
(* ServerAnalyzer::calculate_confidence (server_analyzer.rs) *)

S_Parsed == <<"P", "a", "r", "s", "e", "d">>

\* The f32 literals 0.1, 0.2, 0.1, 0.15, 0.1, 0.05 and 0.3 in units of 2^-28.
W_description == 26843546

W_command == 53687092

W_args == 26843546

W_env == 40265320

W_docs_url == 26843546

W_author == 13421773

W_parsed == 80530640

Weights == <<W_description, W_command, W_args, W_env, W_docs_url, W_author, W_parsed>>

\* score (or total, with every check TRUE) after the checks from i on: the
\* weight of each check that holds is added, in the order of the code.
RECURSIVE AddWeights(_, _, _)
AddWeights(checks, i, sum) ==
    IF i > Len(Weights) THEN sum
    ELSE AddWeights(checks, i + 1,
                    IF checks[i] THEN F32Add(sum, Weights[i]) ELSE sum)

\* score / total, 0.0 when total is not positive.
Ratio(checks) ==
    LET score == AddWeights(checks, 1, 0)
        total == AddWeights([i \in 1..Len(Weights) |-> TRUE], 1, 0)
    IN  IF total > 0 THEN F32Div(score, total) ELSE 0

\* A slip calculate_confidence could have: the env check without its
\* negation (config.env.is_empty()).
calculate_confidence_env_inverted(cfg, msgs) ==
    Ratio(<< IsSome(cfg.description),
             cfg.command # <<>>,
             cfg.args # <<>>,
             DOMAIN cfg.env = {},
             IsSome(cfg.docs_url),
             IsSome(cfg.author),
             \E i \in 1..Len(msgs) : Contains(msgs[i], S_Parsed) >>)

\* calculate_confidence(config, messages)
calculate_confidence(cfg, msgs) ==
    Ratio(<< IsSome(cfg.description),
             cfg.command # <<>>,
             cfg.args # <<>>,
             DOMAIN cfg.env # {},
             IsSome(cfg.docs_url),
             IsSome(cfg.author),
             \E i \in 1..Len(msgs) : Contains(msgs[i], S_Parsed) >>)

\* The configurations scored: each of the six checks on the configuration
\* false or true.
ScoredConfigs ==
    { DetectedConfig(<<"f", "o", "o">>, d, c, a, e, <<>>, S_stdio, None, u, w, None) :
        d \in {None, Some(<<"A", " ", "t", "o", "o", "l">>)},
        c \in {<<>>, S_npx},
        a \in {<<>>, <<S_dash_y, <<"f", "o", "o">>>>},
        e \in {EmptyMap, <<"A", "P", "I", "_", "K", "E", "Y">> :> EnvVarConfig(<<"A", "P", "I", "_", "K", "E", "Y">>, None, TRUE, None, None)},
        u \in {None, Some(<<"h", "t", "t", "p", "s", ":", "/", "/", "f", "o", "o", ".", "d", "e", "v">>)},
        w \in {None, Some(<<"A", "n", "n">>)} }

\* The message sequences scored, made of the messages the analyzer pushes.
ScoredMessages ==
    { <<>>,
      <<<<"F", "e", "t", "c", "h", "i", "n", "g", " ", "n", "p", "m", " ", "p", "a", "c", "k", "a", "g", "e", " ", "i", "n", "f", "o", " ", "f", "o", "r", ":", " ", "f", "o", "o">>>>,
      <<<<"F", "e", "t", "c", "h", "i", "n", "g", " ", "n", "p", "m", " ", "p", "a", "c", "k", "a", "g", "e", " ", "i", "n", "f", "o", " ", "f", "o", "r", ":", " ", "f", "o", "o">>, <<"P", "a", "r", "s", "e", "d", " ", "p", "a", "c", "k", "a", "g", "e", ".", "j", "s", "o", "n", " ", "s", "u", "c", "c", "e", "s", "s", "f", "u", "l", "l", "y">>>>,
      <<<<"A", "n", "a", "l", "y", "z", "i", "n", "g", " ", "l", "o", "c", "a", "l", " ", "p", "a", "t", "h", ":", " ", "f", "o", "o">>, <<"F", "o", "u", "n", "d", " ", "a", "n", "d", " ", "p", "a", "r", "s", "e", "d", " ", "p", "a", "c", "k", "a", "g", "e", ".", "j", "s", "o", "n">>>>,
      <<<<"F", "e", "t", "c", "h", "i", "n", "g", " ", "f", "r", "o", "m", " ", "G", "i", "t", "H", "u", "b", ":", " ", "a", "c", "m", "e", "/", "t", "o", "o", "l">>, <<"F", "o", "u", "n", "d", " ", "p", "a", "c", "k", "a", "g", "e", ".", "j", "s", "o", "n", " ", "o", "n", " ", "m", "a", "i", "n", " ", "b", "r", "a", "n", "c", "h">>,
        <<"P", "a", "r", "s", "e", "d", " ", "R", "E", "A", "D", "M", "E", " ", "f", "r", "o", "m", " ", "m", "a", "i", "n", " ", "b", "r", "a", "n", "c", "h">>>> }

ConfidenceInit ==
    /\ score_config \in ScoredConfigs
    /\ score_messages \in ScoredMessages
    /\ confidence = None

CalculateConfidence ==
    /\ confidence = None
    /\ confidence' = Some(calculate_confidence(score_config, score_messages))
    /\ UNCHANGED <<score_config, score_messages, exceptConfidence>>

ConfidenceNext == CalculateConfidence

InitConfidence ==
    /\ ConfidenceInit /\ RegistryIdle /\ ValidateIdle /\ ManifestIdle /\ MergeIdle
    /\ ReadmeIdle /\ RunIdle
    /\ AutoIdle /\ SharedIdle

SpecConfidence == InitConfidence /\ [][ConfidenceNext]_vars

----------------------------------------------------------------------------
(* More of str and char, as readme_parser.rs and the analyzer use them *)

\* char::is_whitespace, on the characters of the texts modelled
IsWhitespace(c) == c \in {" ", "\t", "\n", "\r"}

\* char::is_uppercase, on ASCII
IsUppercase(c) == \E i \in 1..26 : UpperCase[i] = c

\* char::is_ascii_digit
IsDigit(c) == c \in {"0", "1", "2", "3", "4", "5", "6", "7", "8", "9"}

\* char::to_lowercase on the ASCII letters; other characters are kept.
LowerChar(c) ==
    IF \E i \in 1..26 : UpperCase[i] = c
    THEN LowerCase[CHOOSE i \in 1..26 : UpperCase[i] = c]
    ELSE c

\* str::to_lowercase
ToLowercase(s) == [i \in 1..Len(s) |-> LowerChar(s[i])]

\* The first of the positions stops, which lie from i on in s; Len(s) + 1
\* when there is none, and i when i lies behind the text.
FirstFrom(s, i, stops) ==
    IF i > Len(s) THEN i
    ELSE IF stops = {} THEN Len(s) + 1
    ELSE CHOOSE j \in stops : \A k \in stops : j <= k

\* The first position from i on at which s has no whitespace (Len(s) + 1
\* when there is none).
SkipWhitespace(s, i) ==
    LET Stops == {j \in i..Len(s) : ~IsWhitespace(s[j])} IN FirstFrom(s, i, Stops)

\* The last position up to i at which s has no whitespace (0 when there is
\* none).
SkipWhitespaceBack(s, i) ==
    CHOOSE j \in 0..i :
        /\ j = 0 \/ ~IsWhitespace(s[j])
        /\ \A k \in (j + 1)..i : IsWhitespace(s[k])

\* str::trim
Trim(s) == SubSeq(s, SkipWhitespace(s, 1), SkipWhitespaceBack(s, Len(s)))

\* str::trim_matches(char)
TrimMatches(s, c) == TrimEndMatches(TrimStartMatches(s, <<c>>), <<c>>)

\* str::split(char): the pieces between the occurrences of c, from position
\* i on.
RECURSIVE SplitFrom(_, _, _)
SplitFrom(s, c, i) ==
    LET Stops == {j \in i..Len(s) : s[j] = c}
        at == IF i > Len(s) THEN Len(s) + 1 ELSE FirstFrom(s, i, Stops)
    IN  IF at > Len(s) THEN << SubSeq(s, i, Len(s)) >>
        ELSE << SubSeq(s, i, at - 1) >> \o SplitFrom(s, c, at + 1)

\* str::split(char)
Split(s, c) == SplitFrom(s, c, 1)

\* A line without the carriage return that may end it.
StripCarriageReturn(line) ==
    IF Len(line) > 0 /\ line[Len(line)] = "\r"
    THEN SubSeq(line, 1, Len(line) - 1) ELSE line

\* str::lines: the text split at its line feeds; a final line feed does not
\* start a further, empty line.
Lines(content) ==
    LET pieces == Split(content, "\n")
        kept   == IF pieces[Len(pieces)] = <<>>
                  THEN SubSeq(pieces, 1, Len(pieces) - 1) ELSE pieces
    IN  [i \in 1..Len(kept) |-> StripCarriageReturn(kept[i])]

\* The end (exclusive) of the longest run without whitespace from i on.
WordEnd(content, i) ==
    LET Stops == {j \in i..Len(content) : IsWhitespace(content[j])} IN FirstFrom(content, i, Stops)

\* str::split_whitespace: the maximal runs without whitespace, from i on.
RECURSIVE SplitWhitespaceFrom(_, _)
SplitWhitespaceFrom(s, i) ==
    LET w == SkipWhitespace(s, i)
    IN  IF w > Len(s) THEN <<>>
        ELSE << SubSeq(s, w, WordEnd(s, w) - 1) >> \o SplitWhitespaceFrom(s, WordEnd(s, w))

\* str::split_whitespace
SplitWhitespace(s) == SplitWhitespaceFrom(s, 1)

\* The number of characters c that s starts with.
RECURSIVE CountLeading(_, _)
CountLeading(s, c) ==
    IF Len(s) > 0 /\ s[1] = c THEN 1 + CountLeading(Tail(s), c) ELSE 0

\* The end of the line that position i of content is on: the position of
\* its line feed, or Len(content) + 1.
LineEnd(content, i) ==
    LET Stops == {j \in i..Len(content) : content[j] = "\n"} IN FirstFrom(content, i, Stops)

\* ^ of a (?m) pattern: position i is the start of a line.
AtLineStart(content, i) == i = 1 \/ content[i - 1] = "\n"

\* [A-Z0-9_]
IsNameChar(c) == IsUppercase(c) \/ IsDigit(c) \/ c = "_"

\* The end (exclusive) of the longest run of [A-Z0-9_] from i on.
NameEnd(content, i) ==
    LET Stops == {j \in i..Len(content) : ~IsNameChar(content[j])} IN FirstFrom(content, i, Stops)

\* ([A-Z][A-Z0-9_]+) at position i: the end (exclusive) of the name matched,
\* 0 when there is no match. The class takes every character it can: what
\* follows the group in each pattern is outside the class.
MatchName(content, i) ==
    IF i <= Len(content) /\ IsUppercase(content[i]) /\ NameEnd(content, i + 1) > i + 1
    THEN NameEnd(content, i + 1) ELSE 0

----------------------------------------------------------------------------
(* ReadmeParser (readme_parser.rs): extract_section *)

\* The loop of extract_section over lines[i..]: the section content once the
\* loop has ended.
RECURSIVE ExtractSectionLoop(_, _, _, _, _, _)
ExtractSectionLoop(lines, i, section_names, in_section, section_level, section_content) ==
    IF i > Len(lines) THEN section_content
    ELSE
      LET line    == lines[i]
          trimmed == Trim(line)
          heading == Len(trimmed) > 0 /\ trimmed[1] = "#"
          level   == CountLeading(trimmed, "#")
          heading_text == ToLowercase(Trim(TrimStartMatches(trimmed, <<"#">>)))
          target  == \E n \in 1..Len(section_names) :
                        Contains(heading_text, ToLowercase(section_names[n]))
      IN  IF heading /\ target
          THEN ExtractSectionLoop(lines, i + 1, section_names, TRUE, level, section_content)
          ELSE IF heading /\ in_section /\ level <= section_level
          THEN section_content
          ELSE ExtractSectionLoop(lines, i + 1, section_names, in_section, section_level,
                                  IF in_section THEN section_content \o line \o <<"\n">>
                                  ELSE section_content)

\* extract_section(content, section_names)
extract_section(content, section_names) ==
    LET section_content == ExtractSectionLoop(Lines(content), 1, section_names, FALSE, 0, <<>>)
    IN  IF section_content = <<>> THEN None ELSE Some(section_content)

\* The section names extract_env_vars_from_readme looks for.
EnvSectionNames ==
    << <<"E", "n", "v", "i", "r", "o", "n", "m", "e", "n", "t", " ", "V", "a", "r", "i", "a", "b", "l", "e", "s">>, <<"E", "n", "v", "i", "r", "o", "n", "m", "e", "n", "t">>, <<"C", "o", "n", "f", "i", "g", "u", "r", "a", "t", "i", "o", "n">>, <<"S", "e", "t", "u", "p">> >>

----------------------------------------------------------------------------
(* ReadmeParser: parse_env_section, parse_table_format, parse_list_format *)

S_pipe == "|"

S_variable == <<"v", "a", "r", "i", "a", "b", "l", "e">>

S_yes == <<"y", "e", "s">>

\* The index of the table header: the first line with a '|' and "name" or
\* "variable" in it, from line i on. None when there is none.
RECURSIVE FindTableHeader(_, _)
FindTableHeader(lines, i) ==
    IF i > Len(lines) THEN None
    ELSE IF /\ Contains(lines[i], <<S_pipe>>)
            /\ \/ Contains(ToLowercase(lines[i]), S_name)
               \/ Contains(ToLowercase(lines[i]), S_variable)
         THEN Some(i)
         ELSE FindTableHeader(lines, i + 1)

\* The first cell with "default" in it, from cell i on.
RECURSIVE FindDefaultCell(_, _)
FindDefaultCell(cells, i) ==
    IF i > Len(cells) THEN None
    ELSE IF Contains(ToLowercase(cells[i]), S_default) THEN Some(cells[i])
    ELSE FindDefaultCell(cells, i + 1)

\* The EnvVarConfig of one table row, given its trimmed cells.
TableRowConfig(cells) ==
    LET name == Trim(cells[2])
        default_cell == FindDefaultCell(cells, 1)
        parts == IF IsSome(default_cell) THEN Split(default_cell[1], ":") ELSE <<>>
    IN  EnvVarConfig(name,
                     IF Len(cells) >= 3 THEN Some(Trim(cells[3])) ELSE None,
                     \E c \in 1..Len(cells) :
                         \/ Contains(ToLowercase(cells[c]), S_required)
                         \/ Contains(ToLowercase(cells[c]), S_yes),
                     IF Len(parts) >= 2 THEN Some(Trim(parts[2])) ELSE None,
                     None)

\* The loop of parse_table_format over the rows lines[i..].
RECURSIVE TableRows(_, _, _)
TableRows(lines, i, env_vars) ==
    IF i > Len(lines) THEN env_vars
    ELSE IF ~Contains(lines[i], <<S_pipe>>) THEN env_vars
    ELSE LET pieces == Split(lines[i], S_pipe)
             cells  == [c \in 1..Len(pieces) |-> Trim(pieces[c])]
             name   == Trim(cells[2])
         IN  IF Len(cells) >= 2 /\ name # <<>> /\ IsUppercase(name[1])
             THEN TableRows(lines, i + 1, MapInsert(env_vars, name, TableRowConfig(cells)))
             ELSE TableRows(lines, i + 1, env_vars)

\* parse_table_format(content): the rows start two lines below the header.
parse_table_format(content) ==
    LET lines == Lines(content)
        header_idx == FindTableHeader(lines, 1)
    IN  IF IsSome(header_idx) THEN TableRows(lines, header_idx[1] + 2, EmptyMap)
        ELSE EmptyMap

\* Characters outside ASCII, and the backtick, are written by their code
\* points.
Backtick == "U+0060"

EnDash == "U+2013"

\* The characters of the class that ends the name in list_pattern: a colon,
\* a hyphen, and the three characters U+00E2, U+20AC, U+201C that the source
\* file has where an en dash was meant.
ListSeparators == {":", "-", "U+00E2", "U+20AC", "U+201C"}

\* list_pattern matched at the line start i:
\*   ^ [-*] \s* backtick? ([A-Z][A-Z0-9_]+) backtick? \s* [separator] \s* (.*) $
\* <<name, description, end>> for a match that ends before position end, <<>>
\* for none. \s also takes line feeds, so a match may run over several lines.
ListMatch(content, i) ==
    IF ~(i <= Len(content) /\ content[i] \in {"-", "*"}) THEN <<>>
    ELSE
      LET a == SkipWhitespace(content, i + 1)
          b == IF a <= Len(content) /\ content[a] = Backtick THEN a + 1 ELSE a
          e == MatchName(content, b)
      IN  IF e = 0 THEN <<>>
          ELSE
            LET f == IF e <= Len(content) /\ content[e] = Backtick THEN e + 1 ELSE e
                g == SkipWhitespace(content, f)
            IN  IF ~(g <= Len(content) /\ content[g] \in ListSeparators) THEN <<>>
                ELSE LET h == SkipWhitespace(content, g + 1)
                         z == LineEnd(content, h)
                     IN  << SubSeq(content, b, e - 1), SubSeq(content, h, z - 1), z >>

\* The loop of parse_list_format over the matches from the line start i on.
RECURSIVE ListLoop(_, _, _)
ListLoop(content, i, env_vars) ==
    IF i > Len(content) THEN env_vars
    ELSE LET m == ListMatch(content, i)
         IN  IF m = <<>> THEN ListLoop(content, LineEnd(content, i) + 1, env_vars)
             ELSE ListLoop(content, m[3] + 1,
                           MapInsert(env_vars, m[1],
                                     EnvVarConfig(m[1], Some(Trim(m[2])),
                                                  Contains(ToLowercase(m[2]), S_required),
                                                  None, None)))

\* parse_list_format(content)
parse_list_format(content) == ListLoop(content, 1, EmptyMap)

\* HashMap::extend: the entries of other, put over those of map.
MapExtend(map, other) ==
    [k \in DOMAIN map \cup DOMAIN other |-> IF k \in DOMAIN other THEN other[k] ELSE map[k]]

\* parse_env_section(section)
parse_env_section(section) ==
    LET table == IF Contains(section, <<S_pipe>>) THEN parse_table_format(section)
                 ELSE EmptyMap
    IN  MapExtend(table, parse_list_format(section))

----------------------------------------------------------------------------
(* ReadmeParser: extract_env_vars_from_readme *)

S_export == <<"e", "x", "p", "o", "r", "t">>

S_PATH == <<"P", "A", "T", "H">>

S_HOME == <<"H", "O", "M", "E">>

S_detected_from_readme == <<"R", "e", "q", "u", "i", "r", "e", "d", " ", "e", "n", "v", "i", "r", "o", "n", "m", "e", "n", "t", " ", "v", "a", "r", "i", "a", "b", "l", "e", " ", "(", "d", "e", "t", "e", "c", "t", "e", "d", " ", "f", "r", "o", "m", " ", "R", "E", "A", "D", "M", "E", ")">>

\* A slip or_insert could have: the entry is replaced when the key is there.
MapOrInsert_replacing(map, key, value) == MapInsert(map, key, value)

\* HashMap::entry(key).or_insert(value): the map is left as it is when it
\* has the key.
MapOrInsert(map, key, value) ==
    IF key \in DOMAIN map THEN map ELSE MapInsert(map, key, value)

\* Pattern 1: the entries of the environment section, when there is one.
SectionPass(content) ==
    LET env_section == extract_section(content, EnvSectionNames)
    IN  IF IsSome(env_section) THEN parse_env_section(env_section[1]) ELSE EmptyMap

\* The text has pat at position i.
StartsWithAt(content, i, pat) ==
    /\ i + Len(pat) - 1 <= Len(content)
    /\ SubSeq(content, i, i + Len(pat) - 1) = pat

\* env_pattern matched at the line start i:
\*   ^ (?:export\s+)? ([A-Z][A-Z0-9_]+) = (.*) $
\* <<var_name, var_value, end>> or <<>>.
InlineMatch(content, i) ==
    LET after_export == SkipWhitespace(content, i + Len(S_export))
        p == IF /\ StartsWithAt(content, i, S_export)
                /\ after_export > i + Len(S_export)
             THEN after_export ELSE i
        e == MatchName(content, p)
    IN  IF e = 0 \/ e > Len(content) \/ content[e] # "=" THEN <<>>
        ELSE << SubSeq(content, p, e - 1),
                SubSeq(content, e + 1, LineEnd(content, e + 1) - 1),
                LineEnd(content, e + 1) >>

\* Pattern 2: the loop over the matches of env_pattern from the line start i.
RECURSIVE InlinePass(_, _, _)
InlinePass(content, i, env_vars) ==
    IF i > Len(content) THEN env_vars
    ELSE LET m == InlineMatch(content, i)
         IN  IF m = <<>> THEN InlinePass(content, LineEnd(content, i) + 1, env_vars)
             ELSE InlinePass(content, m[3] + 1,
                             MapOrInsert(env_vars, m[1],
                                 EnvVarConfig(m[1], None, FALSE, None,
                                              Some(TrimMatches(Trim(m[2]), "\"")))))

\* var_ref_pattern matched at position i:  \$ \{? ([A-Z][A-Z0-9_]+) \}?
\* <<var_name, end>> for a match that ends before position end, or <<>>.
RefMatch(content, i) ==
    IF content[i] # "$" THEN <<>>
    ELSE LET p == IF i + 1 <= Len(content) /\ content[i + 1] = "{" THEN i + 2 ELSE i + 1
             e == MatchName(content, p)
         IN  IF e = 0 THEN <<>>
             ELSE << SubSeq(content, p, e - 1),
                     IF e <= Len(content) /\ content[e] = "}" THEN e + 1 ELSE e >>

\* Pattern 3: the loop over the matches of var_ref_pattern from position i,
\* which is moved to the next dollar sign first.
RECURSIVE RefPass(_, _, _)
RefPass(content, from, env_vars) ==
    LET Stops == {j \in from..Len(content) : content[j] = "$"}
        i == FirstFrom(content, from, Stops)
    IN
    IF i > Len(content) THEN env_vars
    ELSE LET m == RefMatch(content, i)
         IN  IF m = <<>> THEN RefPass(content, i + 1, env_vars)
             ELSE RefPass(content, m[2],
                          IF m[1] # S_PATH /\ m[1] # S_HOME
                          THEN MapOrInsert(env_vars, m[1],
                                   EnvVarConfig(m[1], Some(S_detected_from_readme),
                                                TRUE, None, None))
                          ELSE env_vars)

\* extract_env_vars_from_readme(content)
extract_env_vars_from_readme(content) ==
    RefPass(content, 1,
            InlinePass(content, 1,
                       MapExtend(EmptyMap, SectionPass(content))))

----------------------------------------------------------------------------
(* ReadmeParser: extract_description, extract_install_command *)

DescriptionLimit == 200

\* The loop of extract_description over lines[i..]: the description once
\* the loop has ended.
RECURSIVE DescriptionLoop(_, _, _, _)
DescriptionLoop(lines, i, found_title, description) ==
    IF i > Len(lines) THEN description
    ELSE
      LET trimmed == Trim(lines[i])
      IN  IF trimmed = <<>>
          THEN IF found_title /\ description # <<>> THEN description
               ELSE DescriptionLoop(lines, i + 1, found_title, description)
          ELSE IF trimmed[1] = "#"
          THEN DescriptionLoop(lines, i + 1, TRUE, description)
          ELSE IF StartsWith(trimmed, <<"[", "!", "[">>) \/ StartsWith(trimmed, <<"!", "[">>)
          THEN DescriptionLoop(lines, i + 1, found_title, description)
          ELSE IF found_title
          THEN LET longer == IF description = <<>> THEN trimmed
                             ELSE description \o <<" ">> \o trimmed
               IN  IF Len(longer) > DescriptionLimit THEN longer
                   ELSE DescriptionLoop(lines, i + 1, found_title, longer)
          ELSE DescriptionLoop(lines, i + 1, found_title, description)

\* extract_description(content)
extract_description(content) ==
    LET description == DescriptionLoop(Lines(content), 1, FALSE, <<>>)
    IN  IF description = <<>> THEN None ELSE Some(description)

S_install == <<"i", "n", "s", "t", "a", "l", "l">>

S_i == <<"i">>

\* \s+([^\s\n]+) at position i: <<the word>> or <<>>.
SpacesThenWord(content, i) ==
    LET w == SkipWhitespace(content, i)
    IN  IF w > i /\ WordEnd(content, w) > w
        THEN << SubSeq(content, w, WordEnd(content, w) - 1) >> ELSE <<>>

\* install_pattern matched at position i:  npm \s+ (?:i|install) \s+ ([^\s\n]+)
\* <<package>> or <<>>. The alternative i is tried before install.
InstallMatch(content, i) ==
    LET v == SkipWhitespace(content, i + Len(S_npm))
    IN  IF ~(StartsWithAt(content, i, S_npm) /\ v > i + Len(S_npm)) THEN <<>>
        ELSE IF StartsWithAt(content, v, S_i) /\ SpacesThenWord(content, v + Len(S_i)) # <<>>
        THEN SpacesThenWord(content, v + Len(S_i))
        ELSE IF StartsWithAt(content, v, S_install)
        THEN SpacesThenWord(content, v + Len(S_install))
        ELSE <<>>

\* Regex::captures: the first match of install_pattern from position i on.
InstallSearch(content, from) ==
    LET Stops == {j \in from..Len(content) : InstallMatch(content, j) # <<>>}
        i == FirstFrom(content, from, Stops)
    IN  IF i > Len(content) THEN <<>> ELSE InstallMatch(content, i)

\* extract_install_command(content)
extract_install_command(content) ==
    LET cap == InstallSearch(content, 1)
    IN  IF cap # <<>> THEN Some(S_npm_install \o cap[1]) ELSE None

----------------------------------------------------------------------------
(* ReadmeParser: extract_command_example, parse_command_line, parse_readme *)

S_fence == <<Backtick, Backtick, Backtick>>

S_bash == <<"b", "a", "s", "h">>

S_sh == <<"s", "h">>

S_shell == <<"s", "h", "e", "l", "l">>

S_python == <<"p", "y", "t", "h", "o", "n">>

S_python3 == <<"p", "y", "t", "h", "o", "n", "3">>

RelevantCommands == {S_npx, S_node, S_npm, S_python, S_python3}

\* parse_command_line(line)
parse_command_line(line) ==
    LET parts == SplitWhitespace(line)
    IN  IF parts = <<>> THEN None
        ELSE IF parts[1] \in RelevantCommands THEN Some(<<parts[1], Tail(parts)>>)
        ELSE None

\* The first position from i on at which the text has pat, 0 when nowhere.
FindFrom(content, pat, from) ==
    LET Stops == {j \in from..Len(content) : StartsWithAt(content, j, pat)}
        i == FirstFrom(content, from, Stops)
    IN  IF i > Len(content) THEN 0 ELSE i

\* \s*\n([\s\S]*?)\n and the closing fence, the whitespace being that of
\* content[p..w-1] and the line feed tried at n, n - 1, ..., p: the greedy
\* \s* gives back as little as it must, and the lazy group takes the block up
\* to the first line feed with a fence behind it. <<code, end>> or <<>>.
RECURSIVE BlockBody(_, _, _)
BlockBody(content, p, n) ==
    IF n < p THEN <<>>
    ELSE LET q == FindFrom(content, <<"\n">> \o S_fence, n + 1)
         IN  IF content[n] = "\n" /\ q > 0
             THEN << SubSeq(content, n + 1, q - 1), q + 1 + Len(S_fence) >>
             ELSE BlockBody(content, p, n - 1)

\* The position behind the language tag (bash, sh or shell) of a fence whose
\* tag starts at p, the tag being one that whitespace follows; p when there
\* is no such tag.
AfterLanguage(content, p) ==
    LET followed(tag) == /\ StartsWithAt(content, p, tag)
                         /\ p + Len(tag) <= Len(content)
                         /\ IsWhitespace(content[p + Len(tag)])
    IN  IF followed(S_bash) THEN p + Len(S_bash)
        ELSE IF followed(S_sh) THEN p + Len(S_sh)
        ELSE IF followed(S_shell) THEN p + Len(S_shell)
        ELSE p

\* code_block_pattern matched at position i: a fence, (?:bash|sh|shell)?,
\* \s*\n, the block, \n and a fence. <<code, end>> or <<>>.
CodeBlockMatch(content, i) ==
    IF ~StartsWithAt(content, i, S_fence) THEN <<>>
    ELSE LET p == AfterLanguage(content, i + Len(S_fence))
             w == SkipWhitespace(content, p)
         IN  BlockBody(content, p, w - 1)

\* The loop over the lines of one code block: the first line that is a
\* relevant command and no installation, as Some(<<cmd, args>>).
RECURSIVE CodeLines(_, _)
CodeLines(lines, i) ==
    IF i > Len(lines) THEN None
    ELSE LET trimmed == Trim(lines[i])
             command_line == parse_command_line(trimmed)
         IN  IF trimmed = <<>> \/ trimmed[1] = "#" THEN CodeLines(lines, i + 1)
             ELSE IF /\ IsSome(command_line)
                     /\ ~\E a \in 1..Len(command_line[1][2]) :
                            command_line[1][2][a] \in {S_install, S_i}
             THEN command_line
             ELSE CodeLines(lines, i + 1)

\* The loop of extract_command_example over the code blocks from position i.
RECURSIVE CodeBlocks(_, _)
CodeBlocks(content, from) ==
    LET i == IF FindFrom(content, S_fence, from) = 0 THEN Len(content) + 1
             ELSE FindFrom(content, S_fence, from)
    IN
    IF i > Len(content) THEN None
    ELSE LET m == CodeBlockMatch(content, i)
         IN  IF m = <<>> THEN CodeBlocks(content, i + 1)
             ELSE IF IsSome(CodeLines(Lines(m[1]), 1)) THEN CodeLines(Lines(m[1]), 1)
             ELSE CodeBlocks(content, m[2])

\* extract_command_example(content)
extract_command_example(content) == CodeBlocks(content, 1)

\* parse_readme(content): always Ok.
parse_readme(content) ==
    LET example == extract_command_example(content)
    IN  [ok |-> TRUE,
         config |->
           DetectedConfig(S_unknown,
                          extract_description(content),
                          IF IsSome(example) THEN example[1][1] ELSE S_npx,
                          IF IsSome(example) THEN example[1][2] ELSE <<>>,
                          extract_env_vars_from_readme(content),
                          <<>>,
                          S_stdio,
                          extract_install_command(content),
                          None, None, None)]

----------------------------------------------------------------------------
(* The readme parser's inputs and actions *)

\* The headings and bodies the readme texts are made of: a first section and
\* a second one, under a title and a paragraph.
ReadmeHeadings1 ==
    { <<"#", "#", " ", "C", "o", "n", "f", "i", "g", "u", "r", "a", "t", "i", "o", "n">>,
      <<"#", " ", "S", "e", "t", "u", "p">>,
      <<"#", "#", "#", " ", "E", "n", "v", "i", "r", "o", "n", "m", "e", "n", "t", " ", "V", "a", "r", "i", "a", "b", "l", "e", "s">>,
      <<"#", "#", " ", "U", "s", "a", "g", "e">> }

ReadmeBodies1 ==
    { <<"-", " ", "U+0060", "A", "P", "I", "_", "K", "E", "Y", "U+0060", ":", " ", "r", "e", "q", "u", "i", "r", "e", "d", " ", "k", "e", "y", "\n", "*", " ", "P", "O", "R", "T", " ", "-", " ", "t", "h", "e", " ", "p", "o", "r", "t">>,
      <<"|", " ", "N", "a", "m", "e", " ", "|", " ", "D", "e", "s", "c", "r", "i", "p", "t", "i", "o", "n", " ", "|", "\n", "|", "-", "-", "-", "-", "-", "-", "|", "-", "-", "-", "-", "-", "-", "|", "\n", "|", " ", "A", "P", "I", "_", "K", "E", "Y", " ", "|", " ", "k", "e", "y", ",", " ", "r", "e", "q", "u", "i", "r", "e", "d", " ", "|", "\n", "|", " ", "P", "O", "R", "T", " ", "|", " ", "d", "e", "f", "a", "u", "l", "t", ":", " ", "8", "0", "8", "0", " ", "|", "\n", "|", " ", "l", "o", "w", "e", "r", " ", "|", " ", "n", "o", " ", "|">>,
      <<"A", "P", "I", "_", "K", "E", "Y", "=", "a", "b", "c", "\n", "S", "e", "e", " ", "t", "h", "e", " ", "d", "o", "c", "s", ".">>,
      <<"-", " ", "U+0060", "A", "P", "I", "_", "K", "E", "Y", "U+0060", ":", "\n", "P", "O", "R", "T", "=", "1">> }

ReadmeHeadings2 ==
    { <<"#", "#", " ", "S", "e", "t", "u", "p">>,
      <<"#", "#", "#", " ", "N", "o", "t", "e", "s">>,
      <<"#", " ", "L", "i", "c", "e", "n", "s", "e">>,
      <<"#", "#", " ", "U", "s", "a", "g", "e">>,
      <<"#", "#", "#", " ", "E", "n", "v", "i", "r", "o", "n", "m", "e", "n", "t">> }

ReadmeBodies2 ==
    { <<"-", " ", "U+0060", "D", "B", "_", "U", "R", "L", "U+0060", " ", "-", " ", "d", "a", "t", "a", "b", "a", "s", "e", "\n", "-", " ", "U+0060", "A", "P", "I", "_", "K", "E", "Y", "U+0060", ":", " ", "o", "t", "h", "e", "r">>,
      <<"e", "x", "p", "o", "r", "t", " ", "A", "P", "I", "_", "K", "E", "Y", "=", "\"", "x", "y", "z", "\"", "\n", "A", "P", "I", "_", "K", "E", "Y", "=", "s", "e", "c", "o", "n", "d">>,
      <<"U", "s", "e", " ", "$", "A", "P", "I", "_", "K", "E", "Y", ",", " ", "$", "{", "D", "B", "_", "U", "R", "L", "}", " ", "a", "n", "d", " ", "$", "{", "H", "O", "M", "E", "}", ".">>,
      <<"U+0060", "U+0060", "U+0060", "b", "a", "s", "h", "\n", "n", "p", "m", " ", "i", "n", "s", "t", "a", "l", "l", " ", "t", "o", "o", "l", "\n", "e", "x", "p", "o", "r", "t", " ", "A", "P", "I", "_", "K", "E", "Y", "=", "k", "\n", "n", "p", "x", " ", "-", "y", " ", "t", "o", "o", "l", " ", "-", "-", "k", "e", "y", " ", "$", "A", "P", "I", "_", "K", "E", "Y", " ", "-", "-", "p", "o", "r", "t", " ", "$", "P", "O", "R", "T", "\n", "U+0060", "U+0060", "U+0060">> }

ReadmeTitle == <<"#", " ", "T", "o", "o", "l", "\n", "\n", "A", " ", "t", "o", "o", "l", ".", "\n", "\n">>

ReadmeText(h1, b1, h2, b2) ==
    ReadmeTitle \o h1 \o <<"\n">> \o b1 \o <<"\n", "\n">> \o h2 \o <<"\n">> \o b2 \o <<"\n">>

ReadmeContents ==
    { ReadmeText(h1, b1, h2, b2) :
        h1 \in ReadmeHeadings1, b1 \in ReadmeBodies1,
        h2 \in ReadmeHeadings2, b2 \in ReadmeBodies2 }

ReadmeInit ==
    /\ readme_content \in ReadmeContents
    /\ readme_info = None
    /\ readme_section = None

ParseReadme ==
    /\ readme_info = None
    /\ readme_info' = Some(parse_readme(readme_content).config)
    /\ UNCHANGED <<readme_content, readme_section, exceptReadme>>

ExtractSection ==
    /\ readme_section = None
    /\ readme_section' = Some(extract_section(readme_content, EnvSectionNames))
    /\ UNCHANGED <<readme_content, readme_info, exceptReadme>>

ReadmeNext == ParseReadme \/ ExtractSection

InitReadme ==
    /\ ReadmeInit /\ RegistryIdle /\ ValidateIdle /\ ManifestIdle /\ MergeIdle
    /\ ConfidenceIdle /\ RunIdle
    /\ AutoIdle /\ SharedIdle

SpecReadme == InitReadme /\ [][ReadmeNext]_vars

----------------------------------------------------------------------------
(* ServerAnalyzer: a run. A run is one call of one of the analyze functions *)
(* of server_analyzer.rs; each action runs the function from a call or an   *)
(* await to the next await, call or return. What a fetch, a read or a       *)
(* probe of the file system yields is the environment's choice.             *)

S_dist_tags == <<"d", "i", "s", "t", "-", "t", "a", "g", "s">>

S_latest == <<"l", "a", "t", "e", "s", "t">>

S_versions == <<"v", "e", "r", "s", "i", "o", "n", "s">>

S_readme == <<"r", "e", "a", "d", "m", "e">>

S_at == <<"@">>

S_slash == "/"

S_http == <<"h", "t", "t", "p", ":", "/", "/">>

S_https == <<"h", "t", "t", "p", "s", ":", "/", "/">>

S_github_com == <<"g", "i", "t", "h", "u", "b", ".", "c", "o", "m">>

S_raw == <<"h", "t", "t", "p", "s", ":", "/", "/", "r", "a", "w", ".", "g", "i", "t", "h", "u", "b", "u", "s", "e", "r", "c", "o", "n", "t", "e", "n", "t", ".", "c", "o", "m", "/">>

S_package_json == <<"p", "a", "c", "k", "a", "g", "e", ".", "j", "s", "o", "n">>

S_index_js == <<"i", "n", "d", "e", "x", ".", "j", "s">>

S_github_colon == <<"g", "i", "t", "h", "u", "b", ":">>

S_main_branch == <<"m", "a", "i", "n">>

S_master_branch == <<"m", "a", "s", "t", "e", "r">>

\* AnalysisResult
AnalysisResult(config, confidence_, messages, success) ==
    [config |-> config, confidence |-> confidence_, messages |-> messages,
     success |-> success]

\* Result::Ok(value)
OkOf(value) == [ok |-> TRUE, value |-> value]

\* fetch_npm_package(package_name), the registry answering with response:
\* None for a failed request, Some(npm_data) for a JSON document. The text
\* it returns is the pretty-printed manifest, which parses to that manifest.
fetch_npm_package(package_name, response) ==
    IF IsNone(response) THEN Err("Failed to fetch package from npm")
    ELSE LET npm_data == response[1]
             latest_version == AsStr(AndThenGet(Get(npm_data, S_dist_tags), S_latest))
             package_json == IF IsSome(latest_version)
                             THEN AndThenGet(Get(npm_data, S_versions), latest_version[1])
                             ELSE None
         IN  IF IsNone(latest_version) THEN Err("No latest version found")
             ELSE IF IsNone(package_json) THEN Err("Version not found")
             ELSE OkOf(Some(package_json[1]))

\* fetch_npm_readme(package_name), the registry answering with response.
fetch_npm_readme(package_name, response) ==
    IF IsNone(response) THEN Err("Failed to fetch package from npm")
    ELSE LET readme == AsStr(Get(response[1], S_readme))
         IN  IF IsNone(readme) THEN Err("No README found in package")
             ELSE OkOf(readme[1])

\* fetch_url_content(url), the server answering with response: None for a
\* failed request or a status that is no success, Some(text) otherwise.
fetch_url_content(url, response) ==
    IF IsNone(response) THEN Err("HTTP error") ELSE OkOf(response[1])

\* The manifests of the runs.
RunManifestFull ==
    JObj((S_name :> JStr(<<"t", "o", "o", "l">>)) @@ (S_description :> JStr(<<"A", " ", "t", "o", "o", "l">>))
      @@ (S_main :> JStr(S_index_js)) @@ (S_author :> JStr(<<"A", "n", "n">>))
      @@ (S_homepage :> JStr(<<"h", "t", "t", "p", "s", ":", "/", "/", "t", "o", "o", "l", ".", "d", "e", "v">>)))

RunManifestBare == JObj(S_name :> JStr(<<"t", "o", "o", "l">>))

\* The texts a manifest fetch or read yields: None is text that is not JSON.
RunManifestTexts == {None, Some(RunManifestFull), Some(RunManifestBare)}

\* The readme texts of the runs.
RunReadmeRich ==
    ReadmeText(<<"#", "#", " ", "C", "o", "n", "f", "i", "g", "u", "r", "a", "t", "i", "o", "n">>,
               <<"-", " ", "U+0060", "A", "P", "I", "_", "K", "E", "Y", "U+0060", ":", " ", "r", "e", "q", "u", "i", "r", "e", "d", " ", "k", "e", "y", "\n", "*", " ", "P", "O", "R", "T", " ", "-", " ", "t", "h", "e", " ", "p", "o", "r", "t">>,
               <<"#", "#", " ", "U", "s", "a", "g", "e">>,
               <<"U+0060", "U+0060", "U+0060", "b", "a", "s", "h", "\n", "n", "p", "m", " ", "i", "n", "s", "t", "a", "l", "l", " ", "t", "o", "o", "l", "\n", "e", "x", "p", "o", "r", "t", " ", "A", "P", "I", "_", "K", "E", "Y", "=", "k", "\n", "n", "p", "x", " ", "-", "y", " ", "t", "o", "o", "l", " ", "-", "-", "k", "e", "y", " ", "$", "A", "P", "I", "_", "K", "E", "Y", " ", "-", "-", "p", "o", "r", "t", " ", "$", "P", "O", "R", "T", "\n", "U+0060", "U+0060", "U+0060">>)

RunReadmePlain ==
    ReadmeText(<<"#", "#", " ", "U", "s", "a", "g", "e">>,
               <<"A", "P", "I", "_", "K", "E", "Y", "=", "a", "b", "c", "\n", "S", "e", "e", " ", "t", "h", "e", " ", "d", "o", "c", "s", ".">>,
               <<"#", "#", "#", " ", "N", "o", "t", "e", "s">>,
               <<"U", "s", "e", " ", "$", "A", "P", "I", "_", "K", "E", "Y", ",", " ", "$", "{", "D", "B", "_", "U", "R", "L", "}", " ", "a", "n", "d", " ", "$", "{", "H", "O", "M", "E", "}", ".">>)

RunReadmes == {RunReadmeRich, RunReadmePlain}

\* parse_readme on the readme texts of the runs.
ParsedReadmes == [content \in RunReadmes |-> parse_readme(content)]

\* The documents of the npm registry.
NpmDocument(package_json, readme) ==
    ObjectOf((S_dist_tags :> Some(JObj(S_latest :> JStr(<<"1", ".", "0", ".", "0">>))))
          @@ (S_versions :> Some(JObj(<<"1", ".", "0", ".", "0">> :> package_json)))
          @@ (S_readme :> readme))

\* What the npm registry answers: no success, a document without dist-tags,
\* one whose latest version is not among its versions, and whole documents
\* with and without a readme.
NpmResponses ==
    { None, Some(JObj(EmptyMap)),
      Some(JObj((S_dist_tags :> JObj(S_latest :> JStr(<<"2", ".", "0", ".", "0">>)))
             @@ (S_versions :> JObj(<<"1", ".", "0", ".", "0">> :> RunManifestBare)))) }
    \cup { Some(NpmDocument(m, r)) :
             m \in {RunManifestFull, RunManifestBare},
             r \in {None} \cup {Some(JStr(c)) : c \in RunReadmes} }

\* An entry of run_trace: a fetch over the network, a read of a file, a
\* probe whether a file exists (each with what it was for, its target and
\* whether it succeeded), or a merge of a readme's configuration.
Event(op, kind, target, ok) == [op |-> op, kind |-> kind, target |-> target, ok |-> ok]

MergeEvent == Event("merge", "readme", <<>>, TRUE)

\* What one action does to the run: where it goes on, its locals, the events
\* and the messages it adds, and what it returns, if it returns.
Step(pc, config, messages, cursor, events, pushed, result) ==
    [pc |-> pc, config |-> config, messages |-> messages, cursor |-> cursor,
     events |-> events, pushed |-> pushed, result |-> result]

Apply(step) ==
    /\ run_pc' = step.pc
    /\ run_config' = step.config
    /\ run_messages' = step.messages
    /\ run_cursor' = step.cursor
    /\ run_trace' = run_trace \o step.events
    /\ run_log' = run_log \o step.pushed
    /\ run_result' = step.result
    /\ UNCHANGED <<run_entry, exceptRun>>

\* return Err(e), by ? or by an Err(...) expression: the locals are dropped.
ReturnErr(e, messages, events, pushed) ==
    Step("done", None, messages, run_cursor, events, pushed, Some(Err(e)))

\* The end of the three analyze functions: the confidence is calculated and
\* Ok(AnalysisResult { config, confidence, messages, success: true }) returned.
ReturnOk(config, messages, events, pushed) ==
    Step("done", Some(config), messages, run_cursor, events, pushed,
         Some(OkOf(AnalysisResult(config, calculate_confidence(config, messages),
                                  messages, TRUE))))

\* A slip the readme step could have: a readme that cannot be had fails the
\* run (a ? in place of the if let Ok).
WithoutReadme_failing(events) ==
    ReturnErr("readme", run_messages, events, <<>>)

\* The end of analyze_npm_package and analyze_local_path when the if let
\* Ok(..) of the readme does not match: the configuration stays as it is.
WithoutReadme(events) ==
    ReturnOk(run_config[1], run_messages, events, <<>>)

\* package_name.starts_with("@") || package_name.contains('/')
LooksLikeNpmPackage(package_name) ==
    StartsWith(package_name, S_at) \/ Contains(package_name, <<S_slash>>)

\* package_name.starts_with("http://") || package_name.starts_with("https://")
LooksLikeUrl(package_name) ==
    StartsWith(package_name, S_http) \/ StartsWith(package_name, S_https)

\* A slip analyze_package could have: the tests in the order path, URL, npm
\* name.
Dispatch_url_before_npm(package_name, exists) ==
    IF exists THEN "analyze_local_path"
    ELSE IF LooksLikeUrl(package_name) THEN "analyze_url"
    ELSE "analyze_npm_package"

\* analyze_package(package_name): the function it hands the name to. exists
\* is what PathBuf::from(package_name).exists() yields.
Dispatch(package_name, exists) ==
    IF LooksLikeNpmPackage(package_name) THEN "analyze_npm_package"
    ELSE IF exists THEN "analyze_local_path"
    ELSE IF LooksLikeUrl(package_name) THEN "analyze_url"
    ELSE "analyze_npm_package"

\* analyze_package: its own messages are dropped when it returns what the
\* function it calls returns.
AnalyzePackage ==
    /\ run_pc = "analyze_package"
    /\ \E exists \in BOOLEAN :
         LET package_name == run_entry.arg
         IN  Apply(Step(Dispatch(package_name, exists), None, <<>>, None,
                        IF LooksLikeNpmPackage(package_name) THEN <<>>
                        ELSE << Event("exists", "path", package_name, exists) >>,
                        << <<"A", "n", "a", "l", "y", "z", "i", "n", "g", " ", "p", "a", "c", "k", "a", "g", "e", ":", " ">> \o package_name >>,
                        None))

\* analyze_npm_package, up to the fetch of the readme.
AnalyzeNpmPackage ==
    /\ run_pc = "analyze_npm_package"
    /\ \E response \in NpmResponses :
         LET package_name == run_entry.arg
             messages == << <<"F", "e", "t", "c", "h", "i", "n", "g", " ", "n", "p", "m", " ", "p", "a", "c", "k", "a", "g", "e", " ", "i", "n", "f", "o", " ", "f", "o", "r", ":", " ">> \o package_name >>
             package_json == fetch_npm_package(package_name, response)
             events == << Event("fetch", "manifest", package_name, package_json.ok) >>
             parsed_config == parse_package_json(package_json.value)
             message == <<"P", "a", "r", "s", "e", "d", " ", "p", "a", "c", "k", "a", "g", "e", ".", "j", "s", "o", "n", " ", "s", "u", "c", "c", "e", "s", "s", "f", "u", "l", "l", "y">>
         IN  IF ~package_json.ok
             THEN Apply(ReturnErr(package_json.err, messages, events, messages))
             ELSE IF ~parsed_config.ok
             THEN Apply(ReturnErr(parsed_config.err, messages, events, messages))
             ELSE Apply(Step("npm_readme", Some(parsed_config.config),
                             Append(messages, message), None, events,
                             Append(messages, message), None))

\* analyze_npm_package, from the fetch of the readme on.
NpmReadme ==
    /\ run_pc = "npm_readme"
    /\ \E response \in NpmResponses :
         LET package_name == run_entry.arg
             readme == fetch_npm_readme(package_name, response)
             events == << Event("fetch", "readme", package_name, readme.ok) >>
             message == <<"P", "a", "r", "s", "e", "d", " ", "R", "E", "A", "D", "M", "E", " ", "f", "o", "r", " ", "a", "d", "d", "i", "t", "i", "o", "n", "a", "l", " ", "c", "o", "n", "f", "i", "g", "u", "r", "a", "t", "i", "o", "n">>
         IN  IF readme.ok
             THEN \E readme_config \in {ParsedReadmes[readme.value]} :
                    IF readme_config.ok
                    THEN \E config \in {merge_configs(run_config[1], readme_config.config)} :
                           Apply(ReturnOk(config, Append(run_messages, message),
                                          Append(events, MergeEvent), <<message>>))
                    ELSE Apply(WithoutReadme(events))
             ELSE Apply(WithoutReadme(events))

\* Path::file_name as a string: the last component of the path, None when
\* there is none or when it is "..".
FileName(path) ==
    LET pieces == Split(path, S_slash)
        named  == {i \in 1..Len(pieces) : pieces[i] # <<>>}
        last   == CHOOSE i \in named : \A j \in named : j <= i
    IN  IF named = {} THEN None
        ELSE IF pieces[last] = <<".", ".">> THEN None
        ELSE Some(pieces[last])

\* The configuration analyze_local_path makes up for a directory without a
\* package.json.
LocalDefaultConfig(path) ==
    DetectedConfig(UnwrapOr(FileName(path), S_unknown), None, S_node, <<S_index_js>>,
                   EmptyMap, <<>>, S_stdio, None, None, None, None)

\* The readme names analyze_local_path looks for, in its order.
LocalReadmeNames == << <<"R", "E", "A", "D", "M", "E", ".", "m", "d">>, <<"R", "E", "A", "D", "M", "E", ".", "t", "x", "t">>, <<"R", "E", "A", "D", "M", "E">> >>

\* The loop of analyze_local_path over the readme names, up to the read of
\* the first that exists; first is its index, 0 when none exists. The names
\* behind it are not probed.
LocalProbe(config, messages, events, pushed, first) ==
    LET probed == IF first = 0 THEN Len(LocalReadmeNames) ELSE first
        probes == [i \in 1..probed |->
                      Event("exists", "readme", LocalReadmeNames[i], i = first)]
    IN  IF first = 0 THEN ReturnOk(config, messages, events \o probes, pushed)
        ELSE Step("local_readme", Some(config), messages,
                  [readme_name |-> LocalReadmeNames[first]],
                  events \o probes, pushed, None)

\* analyze_local_path, up to the read of package.json or, without one, of
\* the readme.
AnalyzeLocalPath ==
    /\ run_pc = "analyze_local_path"
    /\ \E exists \in BOOLEAN, first \in 0..Len(LocalReadmeNames) :
         LET path == run_entry.arg
             messages == << <<"A", "n", "a", "l", "y", "z", "i", "n", "g", " ", "l", "o", "c", "a", "l", " ", "p", "a", "t", "h", ":", " ">> \o path >>
             events == << Event("exists", "manifest", S_package_json, exists) >>
         IN  IF exists
             THEN Apply(Step("local_manifest", None, messages, None, events, messages, None))
             ELSE Apply(LocalProbe(LocalDefaultConfig(path), messages, events, messages, first))

\* analyze_local_path, from the read of package.json to the read of the
\* readme. text is None when the read fails.
LocalManifest ==
    /\ run_pc = "local_manifest"
    /\ \E text \in {None} \cup {Some(t) : t \in RunManifestTexts},
          first \in 0..Len(LocalReadmeNames) :
         LET events == << Event("read", "manifest", S_package_json, IsSome(text)) >>
             message == <<"F", "o", "u", "n", "d", " ", "a", "n", "d", " ", "p", "a", "r", "s", "e", "d", " ", "p", "a", "c", "k", "a", "g", "e", ".", "j", "s", "o", "n">>
             parsed_config == parse_package_json(text[1])
         IN  IF IsNone(text)
             THEN Apply(ReturnErr("read_to_string", run_messages, events, <<>>))
             ELSE IF ~parsed_config.ok
             THEN Apply(ReturnErr(parsed_config.err, Append(run_messages, message),
                                  events, <<message>>))
             ELSE Apply(LocalProbe(parsed_config.config, Append(run_messages, message),
                                   events, <<message>>, first))

\* A slip the readme loop of analyze_local_path could have: the break
\* inside the if let, by which a readme that cannot be read sends the loop on
\* to the next name.
LocalReadme_continuing ==
    /\ run_pc = "local_readme"
    /\ \E text \in {None} \cup {Some(c) : c \in RunReadmes} :
         LET readme_name == run_cursor.readme_name
             index == CHOOSE i \in DOMAIN LocalReadmeNames : LocalReadmeNames[i] = readme_name
             events == << Event("read", "readme", readme_name, IsSome(text)) >>
             message == <<"P", "a", "r", "s", "e", "d", " ">> \o readme_name \o <<" ", "f", "o", "r", " ", "c", "o", "n", "f", "i", "g", "u", "r", "a", "t", "i", "o", "n">>
         IN  IF IsSome(text)
             THEN \E readme_config \in {ParsedReadmes[text[1]]} :
                    \E config \in {merge_configs(run_config[1], readme_config.config)} :
                       Apply(ReturnOk(config, Append(run_messages, message),
                                      Append(events, MergeEvent), <<message>>))
             ELSE IF index < Len(LocalReadmeNames)
             THEN Apply(Step("local_readme", run_config, run_messages,
                             [readme_name |-> LocalReadmeNames[index + 1]],
                             Append(events, Event("exists", "readme",
                                                  LocalReadmeNames[index + 1], TRUE)),
                             <<>>, None))
             ELSE Apply(WithoutReadme(events))

\* analyze_local_path, from the read of the readme on: whatever the read
\* and the parse yield, the loop is left.
LocalReadme ==
    /\ run_pc = "local_readme"
    /\ \E text \in {None} \cup {Some(c) : c \in RunReadmes} :
         LET readme_name == run_cursor.readme_name
             events == << Event("read", "readme", readme_name, IsSome(text)) >>
             message == <<"P", "a", "r", "s", "e", "d", " ">> \o readme_name \o <<" ", "f", "o", "r", " ", "c", "o", "n", "f", "i", "g", "u", "r", "a", "t", "i", "o", "n">>
         IN  IF IsSome(text)
             THEN \E readme_config \in {ParsedReadmes[text[1]]} :
                    IF readme_config.ok
                    THEN \E config \in {merge_configs(run_config[1], readme_config.config)} :
                           Apply(ReturnOk(config, Append(run_messages, message),
                                          Append(events, MergeEvent), <<message>>))
                    ELSE Apply(WithoutReadme(events))
             ELSE Apply(WithoutReadme(events))

\* analyze_url: its own messages are dropped, whatever it returns.
AnalyzeUrl ==
    /\ run_pc = "analyze_url"
    /\ LET url == run_entry.arg
           messages == << <<"A", "n", "a", "l", "y", "z", "i", "n", "g", " ", "U", "R", "L", ":", " ">> \o url >>
       IN  IF Contains(url, S_github_com)
           THEN Apply(Step("analyze_github_url", None, <<>>, None, <<>>, messages, None))
           ELSE Apply(ReturnErr("URL analysis not yet implemented for non-GitHub URLs",
                                messages, <<>>, messages))

MinUrlParts == 5

\* The branches and readme names analyze_github_url tries, in its order.
GithubBranches == << S_main_branch, S_master_branch >>

GithubReadmeNames == << <<"R", "E", "A", "D", "M", "E", ".", "m", "d">>, <<"R", "E", "A", "D", "M", "E", ".", "M", "D">>, <<"r", "e", "a", "d", "m", "e", ".", "m", "d">> >>

\* https://raw.githubusercontent.com/{owner}/{repo}/{branch}/{file}
RawUrl(owner, repo, branch, file_name) ==
    S_raw \o owner \o <<S_slash>> \o repo \o <<S_slash>> \o branch \o <<S_slash>> \o file_name

\* The configuration analyze_github_url makes up for a repository without a
\* package.json on either branch.
GithubDefaultConfig(url, owner, repo) ==
    DetectedConfig(repo, None, S_npx,
                   <<S_dash_y, S_github_colon \o owner \o <<S_slash>> \o repo>>,
                   EmptyMap, <<>>, S_stdio,
                   Some(S_npm_install \o S_github_colon \o owner \o <<S_slash>> \o repo),
                   Some(url), Some(owner), None)

\* What a fetch of a manifest over HTTP yields: None when it fails, the text
\* otherwise.
ManifestResponses == {None} \cup {Some(t) : t \in RunManifestTexts}

ReadmeResponses == {None} \cup {Some(c) : c \in RunReadmes}

\* analyze_github_url, up to the fetch of package.json on master or, with
\* one on main, of the first readme.
AnalyzeGithubUrl ==
    /\ run_pc = "analyze_github_url"
    /\ \E response \in ManifestResponses :
         LET url == run_entry.arg
             parts == Split(url, S_slash)
             owner == parts[Len(parts) - 1]
             repo == TrimEndMatches(parts[Len(parts)], S_dot_git)
             messages == << <<"F", "e", "t", "c", "h", "i", "n", "g", " ", "f", "r", "o", "m", " ", "G", "i", "t", "H", "u", "b", ":", " ">> \o owner \o <<S_slash>> \o repo >>
             package_url == RawUrl(owner, repo, S_main_branch, S_package_json)
             content == fetch_url_content(package_url, response)
             events == << Event("fetch", "manifest", package_url, content.ok) >>
             message == <<"F", "o", "u", "n", "d", " ", "p", "a", "c", "k", "a", "g", "e", ".", "j", "s", "o", "n", " ", "o", "n", " ", "m", "a", "i", "n", " ", "b", "r", "a", "n", "c", "h">>
             parsed_config == parse_package_json(content.value)
             cursor == [owner |-> owner, repo |-> repo, branch |-> 1, readme |-> 1]
         IN  IF Len(parts) < MinUrlParts
             THEN Apply(ReturnErr("Invalid GitHub URL format", <<>>, <<>>, <<>>))
             ELSE IF ~content.ok
             THEN Apply(Step("github_master", None, messages, cursor, events, messages, None))
             ELSE IF ~parsed_config.ok
             THEN Apply(ReturnErr(parsed_config.err, Append(messages, message), events,
                                  Append(messages, message)))
             ELSE Apply(Step("github_readme", Some(parsed_config.config),
                             Append(messages, message), cursor, events,
                             Append(messages, message), None))

\* analyze_github_url, from the fetch of package.json on master to the fetch
\* of the first readme.
GithubMaster ==
    /\ run_pc = "github_master"
    /\ \E response \in ManifestResponses :
         LET owner == run_cursor.owner
             repo == run_cursor.repo
             package_url == RawUrl(owner, repo, S_master_branch, S_package_json)
             content == fetch_url_content(package_url, response)
             events == << Event("fetch", "manifest", package_url, content.ok) >>
             message == <<"F", "o", "u", "n", "d", " ", "p", "a", "c", "k", "a", "g", "e", ".", "j", "s", "o", "n", " ", "o", "n", " ", "m", "a", "s", "t", "e", "r", " ", "b", "r", "a", "n", "c", "h">>
             parsed_config == parse_package_json(content.value)
         IN  IF ~content.ok
             THEN Apply(Step("github_readme",
                             Some(GithubDefaultConfig(run_entry.arg, owner, repo)),
                             run_messages, run_cursor, events, <<>>, None))
             ELSE IF ~parsed_config.ok
             THEN Apply(ReturnErr(parsed_config.err, Append(run_messages, message), events,
                                  <<message>>))
             ELSE Apply(Step("github_readme", Some(parsed_config.config),
                             Append(run_messages, message), run_cursor, events,
                             <<message>>, None))

\* The position of the readme loops after one pass through the inner loop's
\* body: break leaves the inner loop only, so the next branch follows.
NextReadme(cursor, broke) ==
    IF broke \/ cursor.readme = Len(GithubReadmeNames)
    THEN [cursor EXCEPT !.branch = cursor.branch + 1, !.readme = 1]
    ELSE [cursor EXCEPT !.readme = cursor.readme + 1]

\* analyze_github_url, from the fetch of one readme to the fetch of the
\* next or, behind the last, to the return.
GithubReadme ==
    /\ run_pc = "github_readme"
    /\ \E response \in ReadmeResponses :
         LET branch == GithubBranches[run_cursor.branch]
             readme_url == RawUrl(run_cursor.owner, run_cursor.repo, branch,
                                  GithubReadmeNames[run_cursor.readme])
             content == fetch_url_content(readme_url, response)
             message == <<"P", "a", "r", "s", "e", "d", " ", "R", "E", "A", "D", "M", "E", " ", "f", "r", "o", "m", " ">> \o branch \o <<" ", "b", "r", "a", "n", "c", "h">>
         IN  \E readme_config \in (IF content.ok THEN {Some(ParsedReadmes[content.value])} ELSE {None}) :
               LET took == IsSome(readme_config) /\ readme_config[1].ok
                   messages == IF took THEN Append(run_messages, message) ELSE run_messages
                   events == << Event("fetch", "readme", readme_url, content.ok) >>
                             \o IF took THEN <<MergeEvent>> ELSE <<>>
                   pushed == IF took THEN <<message>> ELSE <<>>
                   cursor == NextReadme(run_cursor, took)
               IN  \E config \in {IF took
                                  THEN merge_configs(run_config[1], readme_config[1].config)
                                  ELSE run_config[1]} :
                     IF cursor.branch > Len(GithubBranches)
                     THEN Apply(ReturnOk(config, messages, events, pushed))
                     ELSE Apply(Step("github_readme", Some(config), messages, cursor,
                                     events, pushed, None))

\* The sources of the runs.
S_github_url == <<"h", "t", "t", "p", "s", ":", "/", "/", "g", "i", "t", "h", "u", "b", ".", "c", "o", "m", "/", "a", "c", "m", "e", "/", "t", "o", "o", "l">>

S_github_git_url == <<"h", "t", "t", "p", "s", ":", "/", "/", "g", "i", "t", "h", "u", "b", ".", "c", "o", "m", "/", "a", "c", "m", "e", "/", "t", "o", "o", "l", ".", "g", "i", "t">>

S_other_url == <<"h", "t", "t", "p", "s", ":", "/", "/", "e", "x", "a", "m", "p", "l", "e", ".", "c", "o", "m", "/", "t", "o", "o", "l">>

S_short_url == <<"g", "i", "t", "h", "u", "b", ".", "c", "o", "m", "/", "t", "o", "o", "l">>

S_scoped_name == <<"@", "a", "c", "m", "e", "/", "t", "o", "o", "l">>

S_plain_name == <<"t", "o", "o", "l">>

S_local_path == <<"s", "r", "v", "/", "t", "o", "o", "l">>

\* The calls a run starts with: the function and its argument.
RunEntry(fn, arg) == [fn |-> fn, arg |-> arg]

RunEntries ==
    { RunEntry("analyze_package", a) :
        a \in {S_github_url, S_other_url, S_scoped_name, S_plain_name, S_local_path} }
    \cup { RunEntry("analyze_npm_package", S_plain_name),
           RunEntry("analyze_local_path", S_local_path) }
    \cup { RunEntry("analyze_url", a) : a \in {S_github_url, S_other_url} }
    \cup { RunEntry("analyze_github_url", a) :
             a \in {S_github_url, S_github_git_url, S_short_url} }

RunInit ==
    /\ run_entry \in RunEntries
    /\ run_pc = run_entry.fn
    /\ run_config = None
    /\ run_messages = <<>>
    /\ run_cursor = None
    /\ run_trace = <<>>
    /\ run_log = <<>>
    /\ run_result = None

RunNext ==
    \/ AnalyzePackage
    \/ AnalyzeNpmPackage
    \/ NpmReadme
    \/ AnalyzeLocalPath
    \/ LocalManifest
    \/ LocalReadme
    \/ AnalyzeUrl
    \/ AnalyzeGithubUrl
    \/ GithubMaster
    \/ GithubReadme

InitRun ==
    /\ RunInit /\ RegistryIdle /\ ValidateIdle /\ ManifestIdle /\ MergeIdle
    /\ ConfidenceIdle /\ ReadmeIdle
    /\ AutoIdle /\ SharedIdle

SpecRun == InitRun /\ [][RunNext]_vars

----------------------------------------------------------------------------
(* The registry's properties *)

\* C1: whatever sequence of add_application, remove_application and
\* update_metadata calls a registry built by new() or from_json_file() has
\* gone through, metadata.application_count is the number of entries of the
\* applications map.
C1_CountEqualsMapSize ==
    metadata.application_count = Cardinality(DOMAIN applications)

\* C1 witness: a remove_application of an absent id has just returned on a
\* registry that has lost a compiled-in profile and gained a new one.
C1_Witness ==
    /\ last_call.op = "remove_application"
    /\ last_call.ret = None
    /\ "cursor" \notin DOMAIN applications
    /\ "test-app" \in DOMAIN applications

\* C2: add_application of a profile whose id is no key raises
\* application_count by one, and a get_application(id) that follows returns
\* the profile; a remove_application(id) that follows the add returns the
\* profile, puts application_count back to its value before the add and
\* leaves no entry for id.
C2_AddThenRemove ==
    [][ /\ (last_call'.op = "add_application" /\ last_call'.id \notin DOMAIN applications)
            => /\ metadata'.application_count = metadata.application_count + 1
               /\ last_call'.id \in DOMAIN applications'
               /\ applications'[last_call'.id] = last_call'.arg[1]
        /\ (last_call.op = "add_application" /\ ~last_call.was_key
              /\ last_call'.op = "get_application" /\ last_call'.id = last_call.id)
            => last_call'.ret = last_call.arg
        /\ (last_call.op = "add_application" /\ ~last_call.was_key
              /\ last_call'.op = "remove_application" /\ last_call'.id = last_call.id)
            => /\ last_call'.ret = last_call.arg
               /\ metadata'.application_count = last_call.count_before
               /\ last_call.id \notin DOMAIN applications'
        /\ (last_call.op = "remove_application" /\ IsSome(last_call.ret)
              /\ last_call'.op = "get_application" /\ last_call'.id = last_call.id)
            => last_call'.ret = None
      ]_vars

\* C2 witness: test-app, which new() does not hold, has been added and then
\* removed, and the registry is back to its twelve profiles.
C2_Witness ==
    /\ last_call.op = "remove_application"
    /\ last_call.id = "test-app"
    /\ IsSome(last_call.ret)
    /\ last_call.count_before = 13
    /\ metadata.application_count = 12

\* The document has an entry under the root key mcpServers.
HasRootEntry(doc) == doc.t = "obj" /\ "mcpServers" \in DOMAIN doc.v

\* The document has an entry under servers of the root object mcp.
HasNestedEntry(doc) ==
    /\ doc.t = "obj"
    /\ "mcp" \in DOMAIN doc.v
    /\ doc.v["mcp"].t = "obj"
    /\ "servers" \in DOMAIN doc.v["mcp"].v

\* C3: validate_config_structure returns an error exactly when the profile
\* is DirectMcpServers and the document has the nested entry but not the
\* root one, or the profile is NestedMcpServers and the document has the
\* root entry but not the nested one; every other case is Ok.
C3_ErrorIffMismatch ==
    validation # None =>
        ( ~validation[1].ok
          <=> \/ /\ app_profile.config_structure = DirectMcpServers
                 /\ HasNestedEntry(document) /\ ~HasRootEntry(document)
              \/ /\ app_profile.config_structure = NestedMcpServers
                 /\ HasRootEntry(document) /\ ~HasNestedEntry(document) )

\* C3 witness: a NestedMcpServers profile has been refused a document that
\* has only the root mcpServers entry.
C3_Witness ==
    /\ validation # None
    /\ ~validation[1].ok
    /\ app_profile.config_structure = NestedMcpServers
    /\ HasRootEntry(document)

\* The manifest, when it is JSON and an object, has the field key.
HasField(content, key) ==
    IsSome(content) /\ content[1].t = "obj" /\ key \in DOMAIN content[1].v

\* The field key of a manifest that has it.
Field(content, key) == content[1].v[key]

\* The manifest's name, "unknown" when it has none.
ManifestName(content) ==
    IF HasField(content, S_name) /\ Field(content, S_name).t = "str"
    THEN Field(content, S_name).v
    ELSE S_unknown

\* The command and args of the parsed manifest.
ParsedCommand == <<parsed[1].config.command, parsed[1].config.args>>

\* C4 as claimed: for every manifest that has a bin field, whatever JSON
\* value it is, parse_package_json returns npx with args ["-y", name].
C4_AnyBinGivesNpx ==
    (parsed # None /\ parsed[1].ok /\ HasField(manifest, S_bin))
        => ParsedCommand = <<S_npx, <<S_dash_y, ManifestName(manifest)>>>>

\* C4 as amended: for every manifest whose bin field is a string or an
\* object with at least one entry, parse_package_json returns npx with args
\* ["-y", name], whatever main and scripts contain.
C4_StringOrEntryBinGivesNpx ==
    (parsed # None /\ parsed[1].ok /\ HasField(manifest, S_bin)
       /\ \/ Field(manifest, S_bin).t = "str"
          \/ Field(manifest, S_bin).t = "obj" /\ DOMAIN Field(manifest, S_bin).v # {})
        => ParsedCommand = <<S_npx, <<S_dash_y, ManifestName(manifest)>>>>

\* C4 witness: a manifest with a bin object of one entry, a main ending in
\* .js and an mcp script has been parsed to npx.
C4_Witness ==
    /\ parsed # None /\ parsed[1].ok
    /\ HasField(manifest, S_bin) /\ Field(manifest, S_bin).t = "obj"
    /\ HasField(manifest, S_main) /\ Field(manifest, S_main) = JStr(<<"i", "n", "d", "e", "x", ".", "j", "s">>)
    /\ HasField(manifest, S_scripts) /\ Field(manifest, S_scripts).t = "obj"
    /\ S_mcp \in DOMAIN Field(manifest, S_scripts).v
    /\ parsed[1].config.command = S_npx

\* The manifest's main is a string ending in .js or .mjs.
MainQualifies(content) ==
    /\ HasField(content, S_main)
    /\ Field(content, S_main).t = "str"
    /\ \/ EndsWith(Field(content, S_main).v, <<".", "j", "s">>)
       \/ EndsWith(Field(content, S_main).v, <<".", "m", "j", "s">>)

\* The manifest's scripts is a map that contains key.
HasScript(content, key) ==
    /\ HasField(content, S_scripts)
    /\ Field(content, S_scripts).t = "obj"
    /\ key \in DOMAIN Field(content, S_scripts).v

\* C5: for a manifest with no bin field the first rule that applies decides:
\* a main ending in .js or .mjs gives (node, [main]); else a scripts map with
\* mcp gives (npm, [run, mcp]); else a scripts map with start gives
\* (npm, [start]); else (npx, [-y, name]).
C5_NoBinPriority ==
    (parsed # None /\ parsed[1].ok /\ ~HasField(manifest, S_bin))
        => ParsedCommand =
             IF MainQualifies(manifest)
             THEN <<<<"n", "o", "d", "e">>, <<Field(manifest, S_main).v>>>>
             ELSE IF HasScript(manifest, <<"m", "c", "p">>)
             THEN <<<<"n", "p", "m">>, <<<<"r", "u", "n">>, <<"m", "c", "p">>>>>>
             ELSE IF HasScript(manifest, <<"s", "t", "a", "r", "t">>)
             THEN <<<<"n", "p", "m">>, <<<<"s", "t", "a", "r", "t">>>>>>
             ELSE <<<<"n", "p", "x">>, <<<<"-", "y">>, ManifestName(manifest)>>>>

\* C5 witness: a manifest with no bin, a main that does not qualify and both
\* scripts has been parsed to npm run mcp.
C5_Witness ==
    /\ parsed # None /\ parsed[1].ok
    /\ ~HasField(manifest, S_bin)
    /\ HasField(manifest, S_main) /\ ~MainQualifies(manifest)
    /\ HasScript(manifest, S_mcp) /\ HasScript(manifest, S_start)
    /\ ParsedCommand = <<S_npm, <<S_run, S_mcp>>>>

\* C6: the env map of merge(base, overlay) has the union of both key sets;
\* a key of base keeps base's entry, a key of overlay alone carries overlay's.
C6_EnvUnionBaseWins ==
    merged # None =>
        /\ DOMAIN merged[1].env = DOMAIN merge_base.env \cup DOMAIN merge_overlay.env
        /\ \A k \in DOMAIN merge_base.env : merged[1].env[k] = merge_base.env[k]
        /\ \A k \in DOMAIN merge_overlay.env \ DOMAIN merge_base.env :
              merged[1].env[k] = merge_overlay.env[k]

\* C6 witness: a merge in which one key collides and one key is the
\* overlay's alone.
C6_Witness ==
    /\ merged # None
    /\ DOMAIN merge_base.env = {<<"A", "P", "I", "_", "K", "E", "Y">>}
    /\ DOMAIN merge_overlay.env = {<<"A", "P", "I", "_", "K", "E", "Y">>, <<"P", "O", "R", "T">>}
    /\ merged[1].env[<<"A", "P", "I", "_", "K", "E", "Y">>].required = FALSE
    /\ merged[1].env[<<"P", "O", "R", "T">>].required = TRUE

\* C7: merging the same overlay a second time leaves the env map as the
\* first merge made it, key for key and value for value.
C7_SecondMergeKeepsEnv ==
    remerged # None => remerged[1].env = merged[1].env

\* C7 witness: the overlay has been merged twice into a base with which it
\* shares a key.
C7_Witness ==
    /\ remerged # None
    /\ DOMAIN merge_base.env \cap DOMAIN merge_overlay.env # {}
    /\ DOMAIN merge_overlay.env \ DOMAIN merge_base.env # {}

\* C8: merge(base, overlay) keeps base's name, command, args, transport
\* type, install command and version, also when base has no install command
\* or version and overlay has; description, docs_url and author are
\* overlay's exactly when base has none.
C8_MergeFrame ==
    merged # None =>
        /\ merged[1].name = merge_base.name
        /\ merged[1].command = merge_base.command
        /\ merged[1].args = merge_base.args
        /\ merged[1].server_type = merge_base.server_type
        /\ merged[1].install_command = merge_base.install_command
        /\ merged[1].version = merge_base.version
        /\ merged[1].description =
              IF IsSome(merge_base.description) THEN merge_base.description
              ELSE merge_overlay.description
        /\ merged[1].docs_url =
              IF IsSome(merge_base.docs_url) THEN merge_base.docs_url ELSE merge_overlay.docs_url
        /\ merged[1].author =
              IF IsSome(merge_base.author) THEN merge_base.author ELSE merge_overlay.author

\* C8 witness: base has no version and no install command, overlay has
\* both, and the merged configuration has neither; base's description has
\* been kept and overlay's author taken.
C8_Witness ==
    /\ merged # None
    /\ IsNone(merge_base.version) /\ IsNone(merge_base.install_command)
    /\ IsSome(merge_overlay.version) /\ IsSome(merge_overlay.install_command)
    /\ IsNone(merged[1].version) /\ IsNone(merged[1].install_command)
    /\ IsSome(merge_base.description) /\ IsSome(merge_overlay.description)
    /\ IsNone(merge_base.author) /\ merged[1].author = Some(<<"B", "o", "b">>)

\* The inputs that differ from (cfg, msgs) in one check, which is false
\* for (cfg, msgs) and true for them.
OneMoreCheck(cfg, msgs) ==
    { <<c, msgs>> : c \in
        { [cfg EXCEPT !.description = Some(<<"A", " ", "t", "o", "o", "l">>)] : x \in {1} \cap {n \in {1} : IsNone(cfg.description)} }
        \cup { [cfg EXCEPT !.command = <<"n", "o", "d", "e">>] : x \in {n \in {1} : cfg.command = <<>>} }
        \cup { [cfg EXCEPT !.args = <<<<"i", "n", "d", "e", "x", ".", "j", "s">>>>] : x \in {n \in {1} : cfg.args = <<>>} }
        \cup { [cfg EXCEPT !.env = <<"P", "O", "R", "T">> :> EnvVarConfig(<<"P", "O", "R", "T">>, None, FALSE, None, None)] :
                 x \in {n \in {1} : DOMAIN cfg.env = {}} }
        \cup { [cfg EXCEPT !.docs_url = Some(<<"h", "t", "t", "p", "s", ":", "/", "/", "f", "o", "o", ".", "d", "e", "v">>)] : x \in {n \in {1} : IsNone(cfg.docs_url)} }
        \cup { [cfg EXCEPT !.author = Some(<<"A", "n", "n">>)] : x \in {n \in {1} : IsNone(cfg.author)} } }
    \cup { <<cfg, Append(msgs, <<"P", "a", "r", "s", "e", "d", " ", "R", "E", "A", "D", "M", "E", " ", "f", "o", "r", " ", "a", "d", "d", "i", "t", "i", "o", "n", "a", "l", " ", "c", "o", "n", "f", "i", "g", "u", "r", "a", "t", "i", "o", "n">>)>> :
             x \in {n \in {1} : \A i \in 1..Len(msgs) : ~Contains(msgs[i], <<"P", "a", "r", "s", "e", "d">>)} }

\* C9: the confidence score lies in [0.0, 1.0], and turning one of the seven
\* checks from false to true, the others left as they are, never lowers it.
C9_ConfidenceBoundedMonotonic ==
    confidence # None =>
        /\ 0 <= confidence[1] /\ confidence[1] <= F32One
        /\ \A better \in OneMoreCheck(score_config, score_messages) :
              calculate_confidence(better[1], better[2]) >= confidence[1]

\* C9 witness: a configuration with a command and args only, scored with a
\* message that says "parsed" but not "Parsed": 0.3 of 1.0, and six checks
\* left to turn.
C9_Witness ==
    /\ confidence # None
    /\ Cardinality(OneMoreCheck(score_config, score_messages)) = 5
    /\ score_config.command # <<>> /\ score_config.args # <<>>
    /\ Len(score_messages) = 2
    /\ confidence[1] > 0 /\ confidence[1] < F32One


----------------------------------------------------------------------------
(* The readme parser's properties *)

\* What each of the three passes finds in the text when it runs alone.
AloneSection == SectionPass(readme_content)

AloneInline == InlinePass(readme_content, 1, EmptyMap)

AloneRef == RefPass(readme_content, 1, EmptyMap)

\* C18: the environment variables of a readme are those of the three passes
\* (section, inline assignment, variable reference), and the entry of each
\* key is the one of the earliest pass that found the key: a later pass never
\* replaces or alters it.
C18_EarliestPassWins ==
    readme_info # None =>
        LET env == readme_info[1].env
        IN  /\ DOMAIN env = DOMAIN AloneSection \cup DOMAIN AloneInline \cup DOMAIN AloneRef
            /\ \A k \in DOMAIN env :
                  env[k] = IF k \in DOMAIN AloneSection THEN AloneSection[k]
                           ELSE IF k \in DOMAIN AloneInline THEN AloneInline[k]
                           ELSE AloneRef[k]

\* C18 witness: a parsed readme with a key that all three passes find, each
\* with an entry of its own.
C18_Witness ==
    /\ readme_info # None
    /\ \E k \in DOMAIN AloneSection \cap DOMAIN AloneInline \cap DOMAIN AloneRef :
          /\ AloneSection[k] # AloneInline[k]
          /\ AloneInline[k] # AloneRef[k]
          /\ readme_info[1].env[k] = AloneSection[k]

\* A line is a heading; its level; it is a heading with a target name in it.
IsHeading(line) == Trim(line) # <<>> /\ Trim(line)[1] = "#"

HeadingLevel(line) == CountLeading(Trim(line), "#")

IsTargetHeading(line) ==
    /\ IsHeading(line)
    /\ \E n \in 1..Len(EnvSectionNames) :
          Contains(ToLowercase(line), ToLowercase(EnvSectionNames[n]))

\* The lines i..j of lines, each with its line feed.
RECURSIVE JoinLines(_, _, _)
JoinLines(lines, i, j) ==
    IF i > j THEN <<>> ELSE lines[i] \o <<"\n">> \o JoinLines(lines, i + 1, j)

\* The section as stated: the lines behind the first target heading, up to
\* the next heading of equal or shallower level.
StatedSection(content) ==
    LET lines == Lines(content)
        targets == {i \in 1..Len(lines) : IsTargetHeading(lines[i])}
        first == CHOOSE i \in targets : \A j \in targets : i <= j
        stops == {i \in (first + 1)..Len(lines) :
                     IsHeading(lines[i]) /\ HeadingLevel(lines[i]) <= HeadingLevel(lines[first])}
        stop == IF stops = {} THEN Len(lines) + 1
                ELSE CHOOSE i \in stops : \A j \in stops : i <= j
        text == JoinLines(lines, first + 1, stop - 1)
    IN  IF targets = {} \/ text = <<>> THEN None ELSE Some(text)

\* C19: extract_section captures the lines behind the first heading with a
\* target name and stops at the next heading of equal or shallower level,
\* whatever its text: no line behind that heading is captured, also when the
\* heading has a target name itself.
C19_SectionStopsAtNextHeading ==
    readme_section # None => readme_section[1] = StatedSection(readme_content)


----------------------------------------------------------------------------
(* The analysis runs' properties *)

\* The run is over: the function it began with has returned.
RunDone == run_pc = "done"

\* The events of the run's trace that are fetches of a manifest, fetches of
\* a readme, reads of a readme, merges.
ManifestFetches == {i \in DOMAIN run_trace : run_trace[i].op = "fetch" /\ run_trace[i].kind = "manifest"}

ReadmeFetches == {i \in DOMAIN run_trace : run_trace[i].op = "fetch" /\ run_trace[i].kind = "readme"}

ReadmeReads == {i \in DOMAIN run_trace : run_trace[i].op = "read" /\ run_trace[i].kind = "readme"}

Merges == {i \in DOMAIN run_trace : run_trace[i].op = "merge"}

\* C11: a run begun by analyze_package on https://github.com/acme/tool in
\* which no fetch of a package.json succeeds ends with a configuration whose
\* command is npx, whose args are ["-y", "github:acme/tool"] and whose
\* install command is "npm install github:acme/tool".
C11_GithubUrlWithoutManifest ==
    (/\ run_entry = RunEntry("analyze_package", S_github_url)
     /\ RunDone
     /\ \A i \in ManifestFetches : ~run_trace[i].ok)
    => /\ run_result[1].ok
       /\ run_result[1].value.config.command = S_npx
       /\ run_result[1].value.config.args = <<S_dash_y, <<"g", "i", "t", "h", "u", "b", ":", "a", "c", "m", "e", "/", "t", "o", "o", "l">>>>
       /\ run_result[1].value.config.install_command = Some(<<"n", "p", "m", " ", "i", "n", "s", "t", "a", "l", "l", " ", "g", "i", "t", "h", "u", "b", ":", "a", "c", "m", "e", "/", "t", "o", "o", "l">>)


\* The run is one of analyze_github_url, called as it is or by analyze_url,
\* on a URL that has an owner and a repository.
GithubRun ==
    /\ run_entry # None
    /\ IF run_entry.fn = "analyze_url" THEN Contains(run_entry.arg, S_github_com)
       ELSE run_entry.fn = "analyze_github_url"
    /\ Len(Split(run_entry.arg, S_slash)) >= MinUrlParts

\* C12: in the manifest chain of a GitHub run (package.json on main, then on
\* master, then the made-up default) a step that yields no configuration,
\* because the fetch fails or because the fetched text does not parse, is
\* followed by the next step; the default being the last step, the chain
\* yields a configuration and the run does not end in an error.
C12_ManifestChainSwallows ==
    [][ GithubRun =>
          /\ (run_pc = "analyze_github_url" /\ run_config' = None)
                => run_pc' = "github_master"
          /\ run_pc = "github_master"
                => (run_pc' = "github_readme" /\ run_config' # None)
          /\ run_pc' = "done" => run_result'[1].ok ]_vars


IsReadmeFetch(event) == event.op = "fetch" /\ event.kind = "readme"

\* The readme candidates of a GitHub run in the stated order: the three
\* names on main, then the three names on master.
GithubCandidates ==
    [i \in 1..(Len(GithubBranches) * Len(GithubReadmeNames)) |->
        RawUrl(run_cursor.owner, run_cursor.repo,
               GithubBranches[((i - 1) \div Len(GithubReadmeNames)) + 1],
               GithubReadmeNames[((i - 1) % Len(GithubReadmeNames)) + 1])]

\* The messages the run pushed that tell of a parsed readme.
ParsedReadmeMessages == {i \in DOMAIN run_log : StartsWith(run_log[i], <<"P", "a", "r", "s", "e", "d", " ", "R", "E", "A", "D", "M", "E">>)}

\* C13: in a GitHub run the readme candidates are fetched in the stated
\* order, main before master, and the search stops at the first that is
\* fetched and parsed: the fetched candidates are the first ones of the
\* order, none is fetched after a merge, at most one readme is merged and at
\* most one "Parsed README" message is pushed.
C13_ReadmeSearchStopsAtFirst ==
    (GithubRun /\ run_cursor # None) =>
        LET fetched == SelectSeq(run_trace, IsReadmeFetch)
        IN  /\ Len(fetched) <= Len(GithubCandidates)
            /\ \A i \in DOMAIN fetched : fetched[i].target = GithubCandidates[i]
            /\ \A f \in ReadmeFetches, m \in Merges : f < m
            /\ Cardinality(Merges) <= 1
            /\ Cardinality(ParsedReadmeMessages) <= 1


\* C14: once the manifest step of a run (npm, local path, GitHub) has
\* produced a configuration, parsed or made up, no outcome of a readme fetch,
\* read or parse fails the run: the configuration is kept, a step that
\* merges no readme leaves it as it is, and the run returns it in an
\* AnalysisResult with success = true.
C14_ReadmeFailuresSwallowed ==
    [][ /\ run_config # None
           => /\ run_config' # None
              /\ Merges' = Merges => run_config' = run_config
        /\ (run_pc' = "done" /\ run_config' # None)
           => /\ run_result'[1].ok
              /\ run_result'[1].value.success
              /\ run_result'[1].value.config = run_config'[1] ]_vars

\* C14 witness: a GitHub run has ended well with the made-up default as its
\* configuration after the fetch of each of the six readme candidates failed.
C14_Witness ==
    /\ GithubRun /\ RunDone
    /\ \A i \in ManifestFetches : ~run_trace[i].ok
    /\ Cardinality(ReadmeFetches) = Len(GithubBranches) * Len(GithubReadmeNames)
    /\ \A i \in ReadmeFetches : ~run_trace[i].ok
    /\ run_result[1].ok /\ run_result[1].value.success
    /\ run_result[1].value.config = GithubDefaultConfig(run_entry.arg, run_cursor.owner, run_cursor.repo)


Fetches == {i \in DOMAIN run_trace : run_trace[i].op = "fetch"}

\* C15: within one run every fetch of a manifest comes before every fetch of
\* a readme, every fetch of a readme before every merge, and no fetch of
\* either kind comes after a merge.
C15_FetchBeforeMerge ==
    /\ \A m \in ManifestFetches, r \in ReadmeFetches : m < r
    /\ \A r \in ReadmeFetches, g \in Merges : r < g
    /\ \A f \in Fetches, g \in Merges : f < g


\* The three transports a server_type names.
TransportTypes == {<<"s", "t", "d", "i", "o">>, <<"s", "s", "e">>, <<"h", "t", "t", "p">>}

\* C16: every AnalysisResult returned with success = true, whatever the
\* source and whatever the fetches, reads and parses yielded, has a command
\* that is not empty and a server_type that is stdio, sse or http.
C16_SuccessHasCommandAndTransport ==
    (run_result # None /\ run_result[1].ok /\ run_result[1].value.success)
    => /\ run_result[1].value.config.command # <<>>
       /\ run_result[1].value.config.server_type \in TransportTypes

\* C16 witness: a run on a manifest with nothing but a name, the readme
\* fetched and merged, has returned success = true with the command npx and
\* the transport stdio.
C16_Witness ==
    /\ run_result # None /\ run_result[1].ok /\ run_result[1].value.success
    /\ run_entry.fn = "analyze_npm_package"
    /\ Merges # {}
    /\ run_result[1].value.config.command = S_npx
    /\ run_result[1].value.config.server_type = S_stdio


\* The messages a Result<AnalysisResult> carries to the caller: those of the
\* AnalysisResult of an Ok, none with an Err, which is an anyhow::Error made
\* of the failure alone.
HandedMessages(result) ==
    IF result.ok THEN result.value.messages ELSE <<>>

\* C17: a run that fails hands the caller, with the error, the diagnostic
\* messages pushed up to the failure, such as the "Fetching ..." message
\* pushed before a manifest fetch that failed.
C17_FailureCarriesMessages ==
    (RunDone /\ ~run_result[1].ok)
    => \A i \in DOMAIN run_log :
          \E j \in DOMAIN HandedMessages(run_result[1]) :
             HandedMessages(run_result[1])[j] = run_log[i]


\* The run has gone through analyze_local_path.
LocalRun == \E i \in DOMAIN run_log : StartsWith(run_log[i], <<"A", "n", "a", "l", "y", "z", "i", "n", "g", " ", "l", "o", "c", "a", "l", " ", "p", "a", "t", "h", ":", " ">>)

IsReadmeProbe(event) == event.op = "exists" /\ event.kind = "readme"

IsReadmeRead(event) == event.op = "read" /\ event.kind = "readme"

\* The readme names of a local path in the stated order.
StatedLocalNames == << <<"R", "E", "A", "D", "M", "E", ".", "m", "d">>, <<"R", "E", "A", "D", "M", "E", ".", "t", "x", "t">>, <<"R", "E", "A", "D", "M", "E">> >>

\* C20: in a local-path run the readme names are probed in the order
\* README.md, README.txt, README up to the first that exists; that one alone
\* is read, at most one readme is merged, and no name behind it is probed or
\* read, also when the read or the parse of it fails.
C20_OnlyFirstLocalReadme ==
    LocalRun =>
        LET probes == SelectSeq(run_trace, IsReadmeProbe)
            reads == SelectSeq(run_trace, IsReadmeRead)
        IN  /\ Len(probes) <= Len(StatedLocalNames)
            /\ \A i \in DOMAIN probes : probes[i].target = StatedLocalNames[i]
            /\ \A i \in DOMAIN probes : probes[i].ok => i = Len(probes)
            /\ Len(reads) <= 1
            /\ \A i \in DOMAIN reads :
                  /\ probes # <<>>
                  /\ probes[Len(probes)].ok
                  /\ reads[i].target = probes[Len(probes)].target
            /\ Cardinality(Merges) <= 1

\* C20 witness: a local-path run has ended in which README.md does not
\* exist, README.txt exists and cannot be read, and README was neither
\* probed nor read.
C20_Witness ==
    /\ LocalRun /\ RunDone /\ run_result[1].ok
    /\ Len(SelectSeq(run_trace, IsReadmeProbe)) = 2
    /\ SelectSeq(run_trace, IsReadmeProbe)[2].ok
    /\ Len(SelectSeq(run_trace, IsReadmeRead)) = 1
    /\ SelectSeq(run_trace, IsReadmeRead)[1].target = StatedLocalNames[2]
    /\ ~SelectSeq(run_trace, IsReadmeRead)[1].ok
    /\ Merges = {}


\* C21: a run on an existing local directory without a package.json (no
\* package.json is found, none is fetched) returns a configuration whose
\* name is the base name of the directory, whose command is node and whose
\* args are ["index.js"].
C21_LocalDirectoryWithoutManifest ==
    (/\ run_entry # None
     /\ run_entry.arg = S_local_path
     /\ RunDone
     /\ \A i \in DOMAIN run_trace : run_trace[i].kind = "manifest" => ~run_trace[i].ok)
    => /\ run_result[1].ok
       /\ run_result[1].value.config.name = <<"t", "o", "o", "l">>
       /\ run_result[1].value.config.command = S_node
       /\ run_result[1].value.config.args = <<S_index_js>>


\* C25: a run on an identifier that starts with http:// or https:// and
\* whose host is not github.com fails with the error "URL analysis not yet
\* implemented for non-GitHub URLs", and no manifest and no readme is
\* fetched in it.
C25_OtherHostUnimplemented ==
    (/\ run_entry # None
     /\ LooksLikeUrl(run_entry.arg)
     /\ ~Contains(run_entry.arg, S_github_com)
     /\ RunDone)
    => /\ ~run_result[1].ok
       /\ run_result[1].err = "URL analysis not yet implemented for non-GitHub URLs"
       /\ Fetches = {}


\* The places of a run that lie in analyze_url and analyze_github_url.
UrlBranch == {"analyze_url", "analyze_github_url", "github_master", "github_readme"}

\* C27: analyze_package tests its argument for an npm name (a leading "@"
\* or a "/") first, then for an existing path, then for http:// or https://,
\* and takes it for an npm name otherwise. So an argument that begins with
\* http:// or https://, and a path with a "/" in it, goes to
\* analyze_npm_package without the path being probed, and a run that begins
\* in analyze_package is never in analyze_url or analyze_github_url.
C27_DispatchOrder ==
    [][ (run_entry # None /\ run_entry.fn = "analyze_package")
        => /\ run_pc' \notin UrlBranch
           /\ run_pc = "analyze_package"
              => /\ (StartsWith(run_entry.arg, S_at) \/ LooksLikeUrl(run_entry.arg)
                       \/ Contains(run_entry.arg, <<S_slash>>))
                    => (run_pc' = "analyze_npm_package" /\ run_trace' = <<>>)
                 /\ (run_trace' # <<>> /\ run_trace'[1].ok) => run_pc' = "analyze_local_path"
                 /\ (run_trace' # <<>> /\ ~run_trace'[1].ok) => run_pc' = "analyze_npm_package" ]_vars

\* C27 witness: analyze_package has handed a GitHub URL to
\* analyze_npm_package, and the registry has been asked for it.
C27_Witness ==
    /\ run_entry = RunEntry("analyze_package", S_github_url)
    /\ run_pc = "npm_readme"
    /\ ManifestFetches # {}
    /\ run_trace[1].target = S_github_url


\* The commands a manifest step gives.
ManifestCommands == {S_npx, S_node, S_npm}

\* C28: the command, the args and the install command of a run's
\* configuration are those of the manifest step (the parsed manifest or the
\* made-up default): no step that follows changes them, whatever the readmes
\* hold and however many are merged, and every returned AnalysisResult has
\* them, its command being npx, node or npm.
C28_CommandFromManifestStep ==
    [][ /\ (run_config # None /\ run_config' # None)
           => /\ run_config'[1].command = run_config[1].command
              /\ run_config'[1].args = run_config[1].args
              /\ run_config'[1].install_command = run_config[1].install_command
        /\ (run_result' # None /\ run_result'[1].ok)
           => /\ run_result'[1].value.config.command = run_config'[1].command
              /\ run_result'[1].value.config.args = run_config'[1].args
              /\ run_result'[1].value.config.install_command = run_config'[1].install_command
              /\ run_result'[1].value.config.command \in ManifestCommands ]_vars

\* C28 witness: a GitHub run without a package.json has merged two readmes,
\* among them the one with the command example npx -y tool --key ... and
\* the install command npm install tool, and has returned the default's
\* command, args and install command.
C28_Witness ==
    /\ GithubRun /\ RunDone /\ run_result[1].ok
    /\ Cardinality(Merges) = 2
    /\ <<"P", "O", "R", "T">> \in DOMAIN run_result[1].value.config.env
    /\ ParsedReadmes[RunReadmeRich].config.args # <<>>
    /\ ParsedReadmes[RunReadmeRich].config.install_command = Some(<<"n", "p", "m", " ", "i", "n", "s", "t", "a", "l", "l", " ", "t", "o", "o", "l">>)
    /\ run_result[1].value.config.command = S_npx
    /\ run_result[1].value.config.args = <<S_dash_y, <<"g", "i", "t", "h", "u", "b", ":", "a", "c", "m", "e", "/", "t", "o", "o", "l">>>>
    /\ run_result[1].value.config.install_command = Some(<<"n", "p", "m", " ", "i", "n", "s", "t", "a", "l", "l", " ", "g", "i", "t", "h", "u", "b", ":", "a", "c", "m", "e", "/", "t", "o", "o", "l">>)


\* A manifest or a readme was parsed in the run: a manifest that was fetched
\* or read in a run that went on (a manifest that does not parse ends the
\* run), or a readme that was merged.
SomethingParsed ==
    \/ Merges # {}
    \/ \E i \in DOMAIN run_trace :
          /\ run_trace[i].kind = "manifest"
          /\ run_trace[i].op \in {"fetch", "read"}
          /\ run_trace[i].ok

\* The score of cfg with the 0.30 weight counted if and only if counted.
StatedConfidence(cfg, counted) ==
    Ratio(<< IsSome(cfg.description),
             cfg.command # <<>>,
             cfg.args # <<>>,
             DOMAIN cfg.env # {},
             IsSome(cfg.docs_url),
             IsSome(cfg.author),
             counted >>)

\* C29: in every run that returns Ok, from npm, a local path or GitHub, the
\* 0.30 weight is part of the confidence if and only if a manifest or a
\* readme was parsed in the run; a run that parsed a manifest and found no
\* readme has it.
C29_ParsedWeightIffParsed ==
    (run_result # None /\ run_result[1].ok)
    => run_result[1].value.confidence
          = StatedConfidence(run_result[1].value.config, SomethingParsed)


----------------------------------------------------------------------------
(* The registry's further properties *)

\* C30: remove_application(id) with an id that is no key of the registry
\* returns None and leaves the registry as it is: the applications map,
\* metadata.application_count and metadata.last_updated keep their values.
C30_RemoveAbsentChangesNothing ==
    [][ (last_call'.op = "remove_application" /\ ~last_call'.was_key)
        => /\ last_call'.ret = None
           /\ applications' = applications
           /\ metadata'.application_count = metadata.application_count
           /\ metadata'.last_updated = metadata.last_updated
           /\ metadata' = metadata ]_vars

\* C30 witness: remove_application has returned None for an id that was no
\* key, at a clock reading later than the registry's last update.
C30_Witness ==
    /\ last_call.op = "remove_application"
    /\ ~last_call.was_key
    /\ last_call.ret = None
    /\ last_call.id \notin DOMAIN applications
    /\ now > metadata.last_updated

\* C26: get_applications_by_category(c) returns exactly the profiles of the
\* map whose metadata.category equals c, each once, and leaves the registry
\* unchanged; on the registry of the built-in defaults the result for
\* CodeEditor contains the profiles of cursor and zed.
C26_ByCategoryExact ==
    [][ last_call'.op = "get_applications_by_category"
        => LET c == last_call'.arg[1]
               result == last_call'.ret
           IN /\ DOMAIN result = {applications[k] :
                                    k \in {x \in DOMAIN applications :
                                              applications[x].category = c}}
              /\ \A p \in DOMAIN result : result[p] = 1
              /\ applications' = applications
              /\ metadata' = metadata
              /\ (applications = DefaultProfiles /\ c = <<"CodeEditor">>)
                 => /\ DefaultProfiles["cursor"] \in DOMAIN result
                    /\ DefaultProfiles["zed"] \in DOMAIN result ]_vars

\* A call has answered on a registry holding, beside other profiles, one
\* added profile of the category asked for.
C26_Witness ==
    /\ last_call.op = "get_applications_by_category"
    /\ last_call.arg = Some(<<"Other", "Test">>)
    /\ "test-app" \in DOMAIN applications
    /\ DOMAIN last_call.ret = {applications["test-app"]}
    /\ MapLen(applications) > 1

\* The positions of the entries of the document f that are no profile.
InvalidEntries(f) ==
    {i \in DOMAIN AsArray(Get(f[1][1], "applications"))[1] :
        IsNone(DeserializeProfile(AsArray(Get(f[1][1], "applications"))[1][i]))}

\* C23: from_json_file returns an error and no registry whenever at least
\* one entry of the applications array fails to deserialize, wherever the
\* entry stands and however many valid entries surround it.
C23_InvalidEntryFailsLoad ==
    [][ (last_call'.op = "from_json_file" /\ InvalidEntries(file) # {})
        => /\ last_call'.ret = Some("from_value")
           /\ applications' = applications
           /\ metadata' = metadata ]_vars

\* A load has answered on an array whose only invalid entry is the last one,
\* after two valid ones.
C23_Witness ==
    /\ last_call.op = "from_json_file"
    /\ InvalidEntries(file) = {3}
    /\ last_call.ret = Some("from_value")

\* The candidates with_auto_load can take its registry from: those that
\* exist and load (the third only when there is a config directory).
LoadingCandidates ==
    {i \in 1..3 : /\ auto_candidates[i].exists
                  /\ from_json_file(auto_candidates[i].content, now).ok
                  /\ (i = 3 => auto_config_dir)}

C24_ReadersSeeMatchingCount ==
    /\ \A r \in Readers :
          /\ shared_readers[r].pc # "idle"
             => metadata.application_count = MapLen(applications)
          /\ shared_readers[r].pc = "seen"
             => shared_readers[r].count = shared_readers[r].len
    /\ (IsSome(shared_writer) /\ shared_writer[1].pc = "count")
       => NoBorrow

\* Both readers hold a borrow on the registry after an add of a new id has
\* returned, and one of them has read the map's size and the count.
C24_Witness ==
    /\ shared_writer = None
    /\ \A r \in Readers : shared_readers[r].pc # "idle"
    /\ \E r \in Readers :
          /\ shared_readers[r].pc = "seen"
          /\ shared_readers[r].len = MapLen(DefaultProfiles) + 1

=============================================================================
